---- MODULE Spec2Model ----
(***************************************************************************)
(* bevy-yoetz: the decision engine (YoetzAdvisor, update_advisor), the      *)
(* plugin's schedule configuration, and the code the YoetzSuggestion        *)
(* derive macro generates, for one entity carrying a YoetzAdvisor.          *)
(*                                                                          *)
(* The schema the generated code is modelled for is EnemyBehavior of        *)
(* examples/example.rs: the unit variant Idle, Chase with a key and an      *)
(* input field, Circle with a key, an input and a state field.              *)
(*                                                                          *)
(* Scores and the consistency bonus are f32 in the source; here they are    *)
(* small naturals, which orders and adds them as f32 does for finite values *)
(* of moderate size (no NaN, no rounding).                                  *)
(***************************************************************************)
EXTENDS Integers, Sequences, FiniteSets, TLC

VARIABLES
    consistency_bonus, \* YoetzAdvisor::consistency_bonus
    active_key,        \* YoetzAdvisor::active_key : Option<S::Key>
    top_suggestion,    \* YoetzAdvisor::top_suggestion : Option<(f32, S)>
    components,        \* the entity's strategy components, as the OmniQuery sees them
    commands,          \* deferred EntityCommands queued by update_advisor, not yet applied
    ran,               \* per system set, how many of its systems ran in this schedule run
    offered,           \* history: the (score, key) of every suggest call since the last take
    winner_idx,        \* history: index in offered of the call that set top_suggestion (0: none)
    taken,             \* history: the suggestion update_advisor took in this run, if any
    old_active,        \* history: active_key as update_advisor found it in this run
    derive_input,      \* the syn::DeriveInput handed to derive(YoetzSuggestion)
    derive_output      \* what impl_suggestion returned for it, once it has run

vars == <<consistency_bonus, active_key, top_suggestion, components, commands,
          ran, offered, winner_idx, taken, old_active, derive_input,
          derive_output>>

advisor == <<consistency_bonus, active_key, top_suggestion>>
history == <<offered, winner_idx>>
decided == <<taken, old_active>>
expansion == <<derive_input, derive_output>>

----------------------------------------------------------------------------
(* Bounds of the model *)

\* suggest calls per run of the schedule (one per system of the Suggest set)
MaxSuggest == 2
\* scores are 0..MaxScore
MaxScore == 2
\* the consistency bonus an advisor is created with is in 0..MaxBonus
MaxBonus == 2

Scores == 0..MaxScore
Bonuses == 0..MaxBonus
\* the entities a key field can name
Targets == {"A", "B"}
\* values of the input field vec_to_target
Vecs == {0, 1}

----------------------------------------------------------------------------
(* Option<T> *)

None == <<>>
Some(x) == <<x>>
Unwrap(o) == o[1]

----------------------------------------------------------------------------
(* The schema and what the derive macro generates for it *)

\* enum EnemyBehavior: Idle; Chase { key, input }; Circle { key, input, state }
Idle == [variant |-> "Idle"]
Chase(t, v) ==
    [variant |-> "Chase", target_entity |-> t, vec_to_target |-> v]
Circle(t, v, ccw) ==
    [variant |-> "Circle", target_entity |-> t, vec_to_target |-> v,
     go_counter_clockwise |-> ccw]

\* every value of the suggestion enum
Suggestions ==
    {Idle}
    \cup {Chase(t, v) : t \in Targets, v \in Vecs}
    \cup {Circle(t, v, ccw) : t \in Targets, v \in Vecs, ccw \in BOOLEAN}

\* the generated key enum: every variant, with its key fields only
KeyIdle == [variant |-> "Idle"]
KeyChase(t) == [variant |-> "Chase", target_entity |-> t]
KeyCircle(t) == [variant |-> "Circle", target_entity |-> t]
Keys == {KeyIdle} \cup {KeyChase(t) : t \in Targets} \cup {KeyCircle(t) : t \in Targets}

\* key, were the key fields left out of the generated key enum
KeyVariantOnly(s) == [variant |-> s.variant]

\* key, were the key field not cloned from the suggestion
KeyFirstTarget(s) ==
    CASE s.variant = "Idle" -> KeyIdle
      [] s.variant = "Chase" -> KeyChase("A")
      [] s.variant = "Circle" -> KeyCircle("A")

\* fn key(&self): the variant, with clones of the key fields
Key(s) ==
    CASE s.variant = "Idle" -> KeyIdle
      [] s.variant = "Chase" -> KeyChase(s.target_entity)
      [] s.variant = "Circle" -> KeyCircle(s.target_entity)

\* the strategy structs: a unit struct for Idle, all the fields for the others
EnemyBehaviorIdle == "EnemyBehaviorIdle"
EnemyBehaviorChase(t, v) == [target_entity |-> t, vec_to_target |-> v]
EnemyBehaviorCircle(t, v, ccw) ==
    [target_entity |-> t, vec_to_target |-> v, go_counter_clockwise |-> ccw]

\* the omni-query: one optional slot per variant, named by the variant's index
Slots == {"strategy0", "strategy1", "strategy2"}
NoComponents == [strategy0 |-> None, strategy1 |-> None, strategy2 |-> None]

\* remove_components, were the struct variants paired with each other's strategy
RemoveComponentsCrossed(key) ==
    CASE key.variant = "Idle" -> [op |-> "remove", slot |-> "strategy0"]
      [] key.variant = "Chase" -> [op |-> "remove", slot |-> "strategy2"]
      [] key.variant = "Circle" -> [op |-> "remove", slot |-> "strategy1"]

\* remove_components, were the strategy chosen by the key's target as well
RemoveComponentsByTarget(key) ==
    CASE key.variant = "Idle" -> [op |-> "remove", slot |-> "strategy0"]
      [] key.variant = "Chase" ->
            [op |-> "remove",
             slot |-> IF key.target_entity = "A" THEN "strategy1" ELSE "strategy2"]
      [] key.variant = "Circle" -> [op |-> "remove", slot |-> "strategy2"]

\* fn remove_components(key, cmd): cmd.remove::<strategy of the key's variant>()
RemoveComponents(key) ==
    CASE key.variant = "Idle" -> [op |-> "remove", slot |-> "strategy0"]
      [] key.variant = "Chase" -> [op |-> "remove", slot |-> "strategy1"]
      [] key.variant = "Circle" -> [op |-> "remove", slot |-> "strategy2"]

\* add_components, were the strategy built without the suggestion's key field
AddComponentsDefaultKey(s) ==
    CASE s.variant = "Idle" ->
            [op |-> "insert", slot |-> "strategy0", component |-> EnemyBehaviorIdle]
      [] s.variant = "Chase" ->
            [op |-> "insert", slot |-> "strategy1",
             component |-> EnemyBehaviorChase("A", s.vec_to_target)]
      [] s.variant = "Circle" ->
            [op |-> "insert", slot |-> "strategy2",
             component |-> EnemyBehaviorCircle("A", s.vec_to_target,
                                               s.go_counter_clockwise)]

\* fn add_components(self, cmd): cmd.insert(strategy built from all the fields)
AddComponents(s) ==
    CASE s.variant = "Idle" ->
            [op |-> "insert", slot |-> "strategy0", component |-> EnemyBehaviorIdle]
      [] s.variant = "Chase" ->
            [op |-> "insert", slot |-> "strategy1",
             component |-> EnemyBehaviorChase(s.target_entity, s.vec_to_target)]
      [] s.variant = "Circle" ->
            [op |-> "insert", slot |-> "strategy2",
             component |-> EnemyBehaviorCircle(s.target_entity, s.vec_to_target,
                                               s.go_counter_clockwise)]

\* update_into_components, were the state field assigned like an input field
UpdateIntoComponentsAllFields(s, comps) ==
    CASE s.variant = "Idle" ->
            IF comps.strategy0 # None
            THEN [ok |-> TRUE, components |-> comps, err |-> None]
            ELSE [ok |-> FALSE, components |-> comps, err |-> Some(Idle)]
      [] s.variant = "Chase" ->
            IF comps.strategy1 # None
            THEN [ok |-> TRUE,
                  components |->
                      [comps EXCEPT !.strategy1 =
                          Some([Unwrap(@) EXCEPT !.vec_to_target = s.vec_to_target])],
                  err |-> None]
            ELSE [ok |-> FALSE, components |-> comps,
                  err |-> Some(Chase(s.target_entity, s.vec_to_target))]
      [] s.variant = "Circle" ->
            IF comps.strategy2 # None
            THEN [ok |-> TRUE,
                  components |->
                      [comps EXCEPT !.strategy2 =
                          Some([Unwrap(@) EXCEPT
                                   !.vec_to_target = s.vec_to_target,
                                   !.go_counter_clockwise = s.go_counter_clockwise])],
                  err |-> None]
            ELSE [ok |-> FALSE, components |-> comps,
                  err |-> Some(Circle(s.target_entity, s.vec_to_target,
                                      s.go_counter_clockwise))]

\* update_into_components, were no field assigned
UpdateIntoComponentsKeepsInput(s, comps) ==
    CASE s.variant = "Idle" ->
            IF comps.strategy0 # None
            THEN [ok |-> TRUE, components |-> comps, err |-> None]
            ELSE [ok |-> FALSE, components |-> comps, err |-> Some(Idle)]
      [] s.variant = "Chase" ->
            IF comps.strategy1 # None
            THEN [ok |-> TRUE, components |-> comps, err |-> None]
            ELSE [ok |-> FALSE, components |-> comps,
                  err |-> Some(Chase(s.target_entity, s.vec_to_target))]
      [] s.variant = "Circle" ->
            IF comps.strategy2 # None
            THEN [ok |-> TRUE, components |-> comps, err |-> None]
            ELSE [ok |-> FALSE, components |-> comps,
                  err |-> Some(Circle(s.target_entity, s.vec_to_target,
                                      s.go_counter_clockwise))]

\* update_into_components, were the Err rebuilt without the state field
UpdateIntoComponentsErrLosesState(s, comps) ==
    CASE s.variant = "Idle" ->
            IF comps.strategy0 # None
            THEN [ok |-> TRUE, components |-> comps, err |-> None]
            ELSE [ok |-> FALSE, components |-> comps, err |-> Some(Idle)]
      [] s.variant = "Chase" ->
            IF comps.strategy1 # None
            THEN [ok |-> TRUE,
                  components |->
                      [comps EXCEPT !.strategy1 =
                          Some([Unwrap(@) EXCEPT !.vec_to_target = s.vec_to_target])],
                  err |-> None]
            ELSE [ok |-> FALSE, components |-> comps,
                  err |-> Some(Chase(s.target_entity, s.vec_to_target))]
      [] s.variant = "Circle" ->
            IF comps.strategy2 # None
            THEN [ok |-> TRUE,
                  components |->
                      [comps EXCEPT !.strategy2 =
                          Some([Unwrap(@) EXCEPT !.vec_to_target = s.vec_to_target])],
                  err |-> None]
            ELSE [ok |-> FALSE, components |-> comps,
                  err |-> Some(Circle(s.target_entity, s.vec_to_target, FALSE))]

\* update_into_components, were Chase and Circle given each other's slot
UpdateIntoComponentsCrossedSlots(s, comps) ==
    CASE s.variant = "Idle" ->
            IF comps.strategy0 # None
            THEN [ok |-> TRUE, components |-> comps, err |-> None]
            ELSE [ok |-> FALSE, components |-> comps, err |-> Some(Idle)]
      [] s.variant = "Chase" ->
            IF comps.strategy2 # None
            THEN [ok |-> TRUE,
                  components |->
                      [comps EXCEPT !.strategy2 =
                          Some([Unwrap(@) EXCEPT !.vec_to_target = s.vec_to_target])],
                  err |-> None]
            ELSE [ok |-> FALSE, components |-> comps,
                  err |-> Some(Chase(s.target_entity, s.vec_to_target))]
      [] s.variant = "Circle" ->
            IF comps.strategy1 # None
            THEN [ok |-> TRUE,
                  components |->
                      [comps EXCEPT !.strategy1 =
                          Some([Unwrap(@) EXCEPT !.vec_to_target = s.vec_to_target])],
                  err |-> None]
            ELSE [ok |-> FALSE, components |-> comps,
                  err |-> Some(Circle(s.target_entity, s.vec_to_target,
                                      s.go_counter_clockwise))]

\* fn update_into_components(self, components) -> Result<(), Self>:
\* with the variant's slot populated, assign the input fields and return Ok;
\* otherwise return the suggestion, rebuilt from its fields, as Err
UpdateIntoComponents(s, comps) ==
    CASE s.variant = "Idle" ->
            IF comps.strategy0 # None
            THEN [ok |-> TRUE, components |-> comps, err |-> None]
            ELSE [ok |-> FALSE, components |-> comps, err |-> Some(Idle)]
      [] s.variant = "Chase" ->
            IF comps.strategy1 # None
            THEN [ok |-> TRUE,
                  components |->
                      [comps EXCEPT !.strategy1 =
                          Some([Unwrap(@) EXCEPT !.vec_to_target = s.vec_to_target])],
                  err |-> None]
            ELSE [ok |-> FALSE, components |-> comps,
                  err |-> Some(Chase(s.target_entity, s.vec_to_target))]
      [] s.variant = "Circle" ->
            IF comps.strategy2 # None
            THEN [ok |-> TRUE,
                  components |->
                      [comps EXCEPT !.strategy2 =
                          Some([Unwrap(@) EXCEPT !.vec_to_target = s.vec_to_target])],
                  err |-> None]
            ELSE [ok |-> FALSE, components |-> comps,
                  err |-> Some(Circle(s.target_entity, s.vec_to_target,
                                      s.go_counter_clockwise))]

----------------------------------------------------------------------------
(* Deferred commands *)

\* an EntityCommands remove or insert taking effect on the entity
ApplyCommand(comps, cmd) ==
    IF cmd.op = "remove"
    THEN [comps EXCEPT ![cmd.slot] = None]
    ELSE [comps EXCEPT ![cmd.slot] = Some(cmd.component)]

RECURSIVE ApplyCommandsReversed(_, _)
\* ApplyCommands, were the command queued last applied first
ApplyCommandsReversed(comps, queue) ==
    IF queue = <<>> THEN comps
    ELSE ApplyCommand(ApplyCommandsReversed(comps, Tail(queue)), Head(queue))

RECURSIVE ApplyCommands(_, _)
\* the queue applied in the order the commands were queued
ApplyCommands(comps, queue) ==
    IF queue = <<>> THEN comps
    ELSE ApplyCommands(ApplyCommand(comps, Head(queue)), Tail(queue))

----------------------------------------------------------------------------
(* The schedule the plugin configures *)

\* configure_sets(schedule, (Suggest, Think, Act).chain()); the scheduler puts a
\* sync point that applies deferred commands after update_advisor, the system
\* of Think, which holds Commands
Chain == <<"Suggest", "Think", "Sync", "Act">>

\* the systems of each set: the suggesting systems, update_advisor, the sync
\* point, and one acting system
SystemsIn ==
    [Suggest |-> MaxSuggest, Think |-> 1, Sync |-> 1, Act |-> 1]

NothingRan == [Suggest |-> 0, Think |-> 0, Sync |-> 0, Act |-> 0]

IndexIn(set) == CHOOSE i \in 1..Len(Chain) : Chain[i] = set

\* CanRun, were the sets not chained
CanRunUnordered(set) == ran[set] < SystemsIn[set]

\* a system of `set` may run when it has not run in this schedule run and every
\* system of the sets chained before it has
CanRun(set) ==
    /\ ran[set] < SystemsIn[set]
    /\ \A i \in 1..(IndexIn(set) - 1) : ran[Chain[i]] = SystemsIn[Chain[i]]

Ran(set) == [ran EXCEPT ![set] = @ + 1]

----------------------------------------------------------------------------
(* YoetzAdvisor *)

\* YoetzAdvisor::new(consistency_bonus)
New(bonus) ==
    /\ consistency_bonus = bonus
    /\ active_key = None
    /\ top_suggestion = None

\* the bonus suggest gives a suggestion: consistency_bonus when its key is the
\* active key, 0.0 otherwise
Bonus(s) ==
    IF active_key # None /\ Unwrap(active_key) = Key(s)
    THEN consistency_bonus
    ELSE 0

\* Rejected, were a tie with the pending score to keep the pending suggestion
RejectedOnTie(score, s) ==
    /\ top_suggestion # None
    /\ score + Bonus(s) <= Unwrap(top_suggestion)[1]

\* Rejected, were a first suggestion held to a pending score of 1
RejectedBelowDefault(score, s) ==
    score + Bonus(s) < (IF top_suggestion = None THEN 1
                        ELSE Unwrap(top_suggestion)[1])

\* Rejected, were the comparison with the pending score turned around
RejectedWhenGreater(score, s) ==
    /\ top_suggestion # None
    /\ score + Bonus(s) > Unwrap(top_suggestion)[1]

\* suggest returns early, keeping the pending suggestion
Rejected(score, s) ==
    /\ top_suggestion # None
    /\ score + Bonus(s) < Unwrap(top_suggestion)[1]

\* suggest, were the bonus spent by the suggestion it is given to
SuggestSpendsBonus(score, s) ==
    /\ top_suggestion' =
           IF Rejected(score, s) THEN top_suggestion ELSE Some(<<score, s>>)
    /\ consistency_bonus' = IF Bonus(s) > 0 THEN 0 ELSE consistency_bonus
    /\ UNCHANGED active_key

\* suggest, were the score stored with the bonus added
SuggestStoresEffectiveScore(score, s) ==
    /\ top_suggestion' =
           IF Rejected(score, s) THEN top_suggestion
           ELSE Some(<<score + Bonus(s), s>>)
    /\ UNCHANGED <<consistency_bonus, active_key>>

\* suggest, were the key of an accepted suggestion made the active key at once
SuggestActivatesKey(score, s) ==
    /\ top_suggestion' =
           IF Rejected(score, s) THEN top_suggestion ELSE Some(<<score, s>>)
    /\ active_key' = IF Rejected(score, s) THEN active_key ELSE Some(Key(s))
    /\ UNCHANGED consistency_bonus

\* YoetzAdvisor::suggest(score, suggestion)
Suggest(score, s) ==
    /\ top_suggestion' =
           IF Rejected(score, s) THEN top_suggestion ELSE Some(<<score, s>>)
    /\ UNCHANGED <<consistency_bonus, active_key>>

----------------------------------------------------------------------------
(* update_advisor, for the one entity of the query *)

\* TakeTop, were the pending suggestion read without being taken
PeekTop == UNCHANGED top_suggestion

\* advisor.top_suggestion.take()
TakeTop == top_suggestion' = None

\* NoSuggestion, were a behaviour that is no longer suggested dropped
NoSuggestionDropsBehavior ==
    /\ active_key' = None
    /\ commands' =
           IF active_key = None THEN commands
           ELSE commands \o <<RemoveComponents(Unwrap(active_key))>>
    /\ UNCHANGED components

\* nothing was pending: continue
NoSuggestion == UNCHANGED <<active_key, components, commands>>

\* AddFirst, were the key of the first suggestion not stored
AddFirstKeepsUnset(suggestion, key) ==
    /\ commands' = commands \o <<AddComponents(suggestion)>>
    /\ UNCHANGED <<active_key, components>>

\* no active key: add the components, the suggestion's key becomes active
AddFirst(suggestion, key) ==
    /\ commands' = commands \o <<AddComponents(suggestion)>>
    /\ active_key' = Some(key)
    /\ UNCHANGED components

\* Updated, were the components of the active key removed all the same
UpdatedThenRemoves(update_result) ==
    /\ components' = update_result.components
    /\ commands' = commands \o <<RemoveComponents(Unwrap(active_key))>>
    /\ active_key' = None

\* update_into_components returned Ok: the components are updated in place
Updated(update_result) ==
    /\ components' = update_result.components
    /\ UNCHANGED <<active_key, commands>>

\* Replace, were the new key not stored in the advisor
ReplaceKeepsActiveKey(old_key, suggestion, key) ==
    /\ commands' =
           commands \o <<RemoveComponents(old_key), AddComponents(suggestion)>>
    /\ UNCHANGED <<active_key, components>>

\* Replace, were the components of the old key left on the entity
ReplaceWithoutRemove(old_key, suggestion, key) ==
    /\ commands' = commands \o <<AddComponents(suggestion)>>
    /\ active_key' = Some(key)
    /\ UNCHANGED components

\* Replace, were the add queued before the remove
ReplaceAddsBeforeRemove(old_key, suggestion, key) ==
    /\ commands' =
           commands \o <<AddComponents(suggestion), RemoveComponents(old_key)>>
    /\ active_key' = Some(key)
    /\ UNCHANGED components

\* the key changed, or update_into_components returned the suggestion as Err:
\* remove the components of the old key, add those of the suggestion
Replace(old_key, suggestion, key) ==
    /\ commands' =
           commands \o <<RemoveComponents(old_key), AddComponents(suggestion)>>
    /\ active_key' = Some(key)
    /\ UNCHANGED components

\* Reconcile, were the Ok of update_into_components unwrapped
ReconcileExpectsOk(suggestion) ==
    LET key == Key(suggestion)
        update_result == UpdateIntoComponents(suggestion, components)
    IN  IF active_key = None
        THEN AddFirst(suggestion, key)
        ELSE IF Unwrap(active_key) = key
        THEN update_result.ok /\ Updated(update_result)
        ELSE Replace(Unwrap(active_key), suggestion, key)

\* Reconcile, were an Err of update_into_components skipped like an Ok
ReconcileIgnoringErr(suggestion) ==
    LET key == Key(suggestion)
        update_result == UpdateIntoComponents(suggestion, components)
    IN  IF active_key = None
        THEN AddFirst(suggestion, key)
        ELSE IF Unwrap(active_key) = key
        THEN Updated(update_result)
        ELSE Replace(Unwrap(active_key), suggestion, key)

\* the body of the loop for a pending suggestion
Reconcile(suggestion) ==
    LET key == Key(suggestion)
        update_result == UpdateIntoComponents(suggestion, components)
    IN  IF active_key = None
        THEN AddFirst(suggestion, key)
        ELSE IF Unwrap(active_key) = key
        THEN IF update_result.ok
             THEN Updated(update_result)
             ELSE Replace(Unwrap(active_key), Unwrap(update_result.err), key)
        ELSE Replace(Unwrap(active_key), suggestion, key)

UpdateAdvisor ==
    /\ CanRun("Think")
    /\ ran' = Ran("Think")
    /\ TakeTop
    /\ IF top_suggestion = None
       THEN NoSuggestion
       ELSE Reconcile(Unwrap(top_suggestion)[2])
    /\ taken' = IF top_suggestion = None THEN None
                ELSE Some(Unwrap(top_suggestion)[2])
    /\ old_active' = active_key
    /\ offered' = <<>>
    /\ winner_idx' = 0
    /\ UNCHANGED consistency_bonus
    /\ UNCHANGED expansion

\* the sync point after update_advisor: its queued commands take effect
ApplyDeferred ==
    /\ CanRun("Sync")
    /\ ran' = Ran("Sync")
    /\ components' = ApplyCommands(components, commands)
    /\ commands' = <<>>
    /\ UNCHANGED <<advisor, history, decided>>
    /\ UNCHANGED expansion

----------------------------------------------------------------------------
(* The systems around the engine *)

\* a system of the Suggest set that calls suggest on the entity's advisor
SuggestSystem ==
    /\ CanRun("Suggest")
    /\ ran' = Ran("Suggest")
    /\ \E score \in Scores, s \in Suggestions :
           /\ Suggest(score, s)
           /\ offered' = Append(offered, [score |-> score, key |-> Key(s)])
           /\ winner_idx' =
                  IF Rejected(score, s) THEN winner_idx ELSE Len(offered) + 1
    /\ UNCHANGED <<components, commands, decided>>
    /\ UNCHANGED expansion

\* a system of the Suggest set that has nothing to suggest for the entity
SuggestSystemSilent ==
    /\ CanRun("Suggest")
    /\ ran' = Ran("Suggest")
    /\ UNCHANGED <<advisor, components, commands, history, decided>>
    /\ UNCHANGED expansion

\* a system of the Act set that only reads the strategy components
ActSystem ==
    /\ CanRun("Act")
    /\ ran' = Ran("Act")
    /\ UNCHANGED <<advisor, components, commands, history, decided>>
    /\ UNCHANGED expansion

\* a system of the Act set that keeps its own state in the state field
ActSystemWritesState ==
    /\ CanRun("Act")
    /\ components.strategy2 # None
    /\ ran' = Ran("Act")
    /\ \E ccw \in BOOLEAN :
           components' =
               [components EXCEPT !.strategy2 =
                   Some([Unwrap(@) EXCEPT !.go_counter_clockwise = ccw])]
    /\ UNCHANGED <<advisor, commands, history, decided>>
    /\ UNCHANGED expansion

\* code outside the engine removes the strategy component from the entity
ExternalRemove ==
    /\ CanRun("Act")
    /\ \E slot \in Slots :
           /\ components[slot] # None
           /\ components' = [components EXCEPT ![slot] = None]
    /\ ran' = Ran("Act")
    /\ UNCHANGED <<advisor, commands, history, decided>>
    /\ UNCHANGED expansion

\* the run of the schedule ends, the next one begins
EndRun ==
    /\ \A i \in 1..Len(Chain) : ran[Chain[i]] = SystemsIn[Chain[i]]
    /\ ran' = NothingRan
    /\ taken' = None
    /\ old_active' = None
    /\ UNCHANGED <<advisor, components, commands, history>>
    /\ UNCHANGED expansion

----------------------------------------------------------------------------
(* derive(YoetzSuggestion): what impl_suggestion does with a derive input *)

\* Result<T, syn::Error>
Ok(value) == [ok |-> TRUE, value |-> value]
Err(error) == [ok |-> FALSE, error |-> error]

\* let v = value; then(v): the value is computed once, before it is used
Let(value, Then(_)) == CHOOSE result \in {Then(v) : v \in {value}} : TRUE

\* AttrArg: a flag, name = value, name(args) or !name
Flag(name) == [name |-> name, form |-> "Flag"]
KeyValue(name) == [name |-> name, form |-> "KeyValue"]
Sub(name, args) == [name |-> name, form |-> "Sub", args |-> args]
Not(name) == [name |-> name, form |-> "Not"]

\* #[yoetz(args)], #[yoetz] and an attribute of another path
YoetzAttr(args) == [path |-> "yoetz", meta |-> "List", tokens |-> args]
YoetzPathAttr == [path |-> "yoetz", meta |-> "Path", tokens |-> <<>>]
DocAttr == [path |-> "doc", meta |-> "NameValue", tokens |-> <<>>]

\* the errors: the message, and the parameter the error is spanned at
IncorrectType(expr) ==
    [message |->
         CASE expr.form = "Flag" -> "is not supported as a flag"
           [] expr.form = "KeyValue" -> "is not supported as key-value"
           [] expr.form = "Sub" -> "is not supported as nested attribute"
           [] expr.form = "Not" -> "cannot be nullified",
     name |-> expr.name]
UnknownName(expr) == [message |-> "Unknown parameter", name |-> expr.name]
RoleGivenTwice(expr) ==
    [message |-> "field role given more than once", name |-> expr.name]
ExpectedBuilder == [message |-> "Expected builder(...)", name |-> ""]
RoleMissing ==
    [message |-> "YoetzSuggestion variant fields must be #[yoets(<role>)]",
     name |-> ""]
TupleUnsupported ==
    [message |-> "tuple variants are currently unsupported for YoetzSuggestion",
     name |-> ""]
NotAnEnum ==
    [message |-> "YoetzSuggestion can only be derived from an enum", name |-> ""]

\* FieldConfig::apply_meta, were a second role to replace the first
FieldApplyMetaLastRoleWins(config, expr) ==
    IF expr.name \in {"key", "input", "state"}
    THEN IF expr.form = "Flag"
         THEN Ok([role |-> Some(expr.name)])
         ELSE Err(IncorrectType(expr))
    ELSE Err(UnknownName(expr))

\* FieldConfig::apply_meta, were a parameter that is not a role skipped
FieldApplyMetaSkipsUnknown(config, expr) ==
    IF expr.name \in {"key", "input", "state"}
    THEN IF expr.form = "Flag"
         THEN IF config.role # None
              THEN Err(RoleGivenTwice(expr))
              ELSE Ok([role |-> Some(expr.name)])
         ELSE Err(IncorrectType(expr))
    ELSE Ok(config)

\* impl ApplyMeta for FieldConfig
FieldApplyMeta(config, expr) ==
    IF expr.name \in {"key", "input", "state"}
    THEN IF expr.form = "Flag"
         THEN IF config.role # None
              THEN Err(RoleGivenTwice(expr))
              ELSE Ok([role |-> Some(expr.name)])
         ELSE Err(IncorrectType(expr))
    ELSE Err(UnknownName(expr))

RECURSIVE FieldApplyArgs(_, _)
\* for expr in exprs { self.apply_meta(expr)?; }
FieldApplyArgs(config, exprs) ==
    IF exprs = <<>> THEN Ok(config)
    ELSE Let(FieldApplyMeta(config, Head(exprs)),
             LAMBDA applied :
                 IF applied.ok THEN FieldApplyArgs(applied.value, Tail(exprs))
                 ELSE applied)

\* ApplyMeta::apply_attr and apply_subsections, for a field
FieldApplyAttr(config, attr) ==
    IF attr.meta = "List" /\ attr.tokens # <<>>
    THEN FieldApplyArgs(config, attr.tokens)
    ELSE Err(ExpectedBuilder)

RECURSIVE FieldApplyAttrs(_, _)
\* the loop of FieldConfig::new_for over the field's attributes
FieldApplyAttrs(config, attrs) ==
    IF attrs = <<>> THEN Ok(config)
    ELSE IF Head(attrs).path # "yoetz" THEN FieldApplyAttrs(config, Tail(attrs))
    ELSE Let(FieldApplyAttr(config, Head(attrs)),
             LAMBDA applied :
                 IF applied.ok THEN FieldApplyAttrs(applied.value, Tail(attrs))
                 ELSE applied)

\* FieldConfig::new_for
FieldConfigNewFor(field) ==
    Let(FieldApplyAttrs([role |-> None], field),
        LAMBDA result :
            IF ~result.ok THEN result
            ELSE IF result.value.role = None THEN Err(RoleMissing)
            ELSE result)

RECURSIVE CollectFieldConfigs(_)
\* fields.iter_mut().map(FieldConfig::new_for).collect::<Result<Vec<_>, _>>()
CollectFieldConfigs(fields) ==
    IF fields = <<>> THEN Ok(<<>>)
    ELSE Let(FieldConfigNewFor(Head(fields)),
             LAMBDA first :
                 IF ~first.ok THEN first
                 ELSE Let(CollectFieldConfigs(Tail(fields)),
                          LAMBDA rest :
                              IF ~rest.ok THEN rest
                              ELSE Ok(<<first.value>> \o rest.value)))

\* a panic of the macro: neither Ok nor Err is returned
Panic(message) == [ok |-> FALSE, panicked |-> TRUE, message |-> message]

\* syn::Ident::new: the identifier of that text, and a panic when the text is
\* not an identifier; of the characters the names here are written with, the
\* one an identifier cannot hold is the # of a raw identifier's r#
IdentNew(string) ==
    IF \E i \in 1..Len(string) : SubSeq(string, i, i) = "#"
    THEN Panic("not a valid Ident")
    ELSE Ok(string)

\* SuggestionVariantData::new: the fields' roles, then the strategy's name from
\* format!("{}{}", parent.name, variant.ident), a raw identifier written r#name
SuggestionVariantDataNew(parent, variant) ==
    Let(CollectFieldConfigs(variant.fields),
        LAMBDA fields_config :
            IF ~fields_config.ok THEN fields_config
            ELSE Let(IdentNew(parent.name \o variant.name),
                     LAMBDA strategy_name :
                         IF ~strategy_name.ok THEN strategy_name
                         ELSE Ok([name |-> variant.name,
                                  strategy_name |-> strategy_name.value,
                                  fields |-> variant.kind,
                                  fields_config |-> fields_config.value])))

RECURSIVE CollectVariants(_, _)
\* variants.iter().map(SuggestionVariantData::new).collect::<Result<Vec<_>, _>>()
CollectVariants(parent, variants) ==
    IF variants = <<>> THEN Ok(<<>>)
    ELSE Let(SuggestionVariantDataNew(parent, Head(variants)),
             LAMBDA first :
                 IF ~first.ok THEN first
                 ELSE Let(CollectVariants(parent, Tail(variants)),
                          LAMBDA rest :
                              IF ~rest.ok THEN rest
                              ELSE Ok(<<first.value>> \o rest.value)))

\* impl ApplyMeta for GeneratedTypeConfig
GeneratedTypeApplyMeta(config, expr) ==
    IF expr.name = "derive"
    THEN IF expr.form = "Sub"
         THEN Ok([derive |-> config.derive \o expr.args])
         ELSE Err(IncorrectType(expr))
    ELSE Err(UnknownName(expr))

RECURSIVE GeneratedTypeApplySubAttr(_, _)
\* ApplyMeta::apply_sub_attr, for a generated type
GeneratedTypeApplySubAttr(config, args) ==
    IF args = <<>> THEN Ok(config)
    ELSE Let(GeneratedTypeApplyMeta(config, Head(args)),
             LAMBDA applied :
                 IF applied.ok
                 THEN GeneratedTypeApplySubAttr(applied.value, Tail(args))
                 ELSE applied)

\* impl ApplyMeta for SuggestionEnumData
EnumApplyMeta(data, expr) ==
    IF expr.name = "key_enum"
    THEN IF expr.form # "Sub" THEN Err(IncorrectType(expr))
         ELSE Let(GeneratedTypeApplySubAttr(data.key_enum_config, expr.args),
                  LAMBDA applied :
                      IF applied.ok
                      THEN Ok([data EXCEPT !.key_enum_config = applied.value])
                      ELSE applied)
    ELSE IF expr.name = "strategy_structs"
    THEN IF expr.form # "Sub" THEN Err(IncorrectType(expr))
         ELSE Let(GeneratedTypeApplySubAttr(data.strategy_structs_config, expr.args),
                  LAMBDA applied :
                      IF applied.ok
                      THEN Ok([data EXCEPT !.strategy_structs_config = applied.value])
                      ELSE applied)
    ELSE Err(UnknownName(expr))

RECURSIVE EnumApplyArgs(_, _)
\* for expr in exprs { self.apply_meta(expr)?; }
EnumApplyArgs(data, exprs) ==
    IF exprs = <<>> THEN Ok(data)
    ELSE Let(EnumApplyMeta(data, Head(exprs)),
             LAMBDA applied :
                 IF applied.ok THEN EnumApplyArgs(applied.value, Tail(exprs))
                 ELSE applied)

\* ApplyMeta::apply_attr and apply_subsections, for the enum
EnumApplyAttr(data, attr) ==
    IF attr.meta = "List" /\ attr.tokens # <<>>
    THEN EnumApplyArgs(data, attr.tokens)
    ELSE Err(ExpectedBuilder)

RECURSIVE EnumApplyAttrs(_, _)
\* the loop of SuggestionEnumData::try_from over the enum's attributes
EnumApplyAttrs(data, attrs) ==
    IF attrs = <<>> THEN Ok(data)
    ELSE IF Head(attrs).path # "yoetz" THEN EnumApplyAttrs(data, Tail(attrs))
    ELSE Let(EnumApplyAttr(data, Head(attrs)),
             LAMBDA applied :
                 IF applied.ok THEN EnumApplyAttrs(applied.value, Tail(attrs))
                 ELSE applied)

\* SuggestionEnumData::try_from: the names of the key enum and of the omni-query
\* from format!("{}Key", ast.ident) and format!("{}OmniQuery", ast.ident), then
\* the enum's attributes
SuggestionEnumDataTryFrom(ast) ==
    Let(IdentNew(ast.ident \o "Key"),
        LAMBDA key_enum_name :
            IF ~key_enum_name.ok THEN key_enum_name
            ELSE Let(IdentNew(ast.ident \o "OmniQuery"),
                     LAMBDA omni_query_name :
                         IF ~omni_query_name.ok THEN omni_query_name
                         ELSE EnumApplyAttrs(
                                  [name |-> ast.ident,
                                   key_enum_name |-> key_enum_name.value,
                                   omni_query_name |-> omni_query_name.value,
                                   key_enum_config |-> [derive |-> <<>>],
                                   strategy_structs_config |-> [derive |-> <<>>]],
                                  ast.attrs)))

\* the roles of a variant's fields whose role is key, in order
KeyFieldsOf(variant_data) ==
    SelectSeq(variant_data.fields_config, LAMBDA config : config.role = Some("key"))

\* emit_key_enum_code, were a tuple variant given an empty key variant
EmitKeyEnumCodeAcceptingTuples(enum_data, variants_data) ==
    Ok([derive |-> <<"Clone", "PartialEq">> \o enum_data.key_enum_config.derive,
        variants |-> [i \in 1..Len(variants_data) |->
                         [name |-> variants_data[i].name,
                          fields |-> KeyFieldsOf(variants_data[i])]]])

\* emit_key_enum_code: emit_key_enum_variant for every variant, the first Err
\* returned
EmitKeyEnumCode(enum_data, variants_data) ==
    IF \E i \in 1..Len(variants_data) : variants_data[i].fields = "Unnamed"
    THEN Err(TupleUnsupported)
    ELSE Ok([derive |-> <<"Clone", "PartialEq">> \o enum_data.key_enum_config.derive,
             variants |-> [i \in 1..Len(variants_data) |->
                              [name |-> variants_data[i].name,
                               fields |-> KeyFieldsOf(variants_data[i])]]])

\* emit_omni_query_code: the slot strategy{i}, from 0, for the variant's strategy
EmitOmniQueryCode(enum_data, variants_data) ==
    [i \in 1..Len(variants_data) |->
        [slot |-> i - 1, strategy |-> variants_data[i].name]]

\* emit_strategy_code for every variant: a component with all the fields
EmitStrategyCode(enum_data, variants_data) ==
    [i \in 1..Len(variants_data) |->
        [name |-> variants_data[i].name,
         derive |-> <<"Component">> \o enum_data.strategy_structs_config.derive,
         fields |-> variants_data[i].fields_config]]

\* emit_trait_impl: emit_key_method, emit_remove_components_method,
\* emit_add_components_method and emit_update_into_components_method; the first
\* panics on a tuple variant, and on a field without a role when it unwraps it
EmitTraitImpl(enum_data, variants_data) ==
    IF \E i \in 1..Len(variants_data) : variants_data[i].fields = "Unnamed"
    THEN Panic("currently unsupported")
    ELSE IF \E i \in 1..Len(variants_data) :
                \E j \in 1..Len(variants_data[i].fields_config) :
                    variants_data[i].fields_config[j].role = None
    THEN Panic("called Option::unwrap() on a None value")
    ELSE Ok([name |-> enum_data.name,
             methods |-> <<"key", "remove_components", "add_components",
                           "update_into_components">>])

\* the body of impl_suggestion after the variants are collected: the key enum,
\* the omni-query, the trait implementation, the strategy structs
EmitAll(ast, enum_data, variants_data) ==
    Let(EmitKeyEnumCode(enum_data, variants_data),
        LAMBDA key_enum :
            IF ~key_enum.ok THEN key_enum
            ELSE Let(EmitTraitImpl(enum_data, variants_data),
                     LAMBDA trait_impl :
                         IF ~trait_impl.ok THEN trait_impl
                         ELSE Ok([key_enum |-> key_enum.value,
                                  omni_query |->
                                      EmitOmniQueryCode(enum_data, variants_data),
                                  trait_impl |-> trait_impl.value,
                                  strategies |->
                                      EmitStrategyCode(enum_data, variants_data)])))

\* impl_suggestion
ImplSuggestion(ast) ==
    IF ast.data # "Enum" THEN Err(NotAnEnum)
    ELSE Let(SuggestionEnumDataTryFrom(ast),
             LAMBDA enum_data :
                 IF ~enum_data.ok THEN enum_data
                 ELSE Let(CollectVariants(enum_data.value, ast.variants),
                          LAMBDA variants_data :
                              IF ~variants_data.ok THEN variants_data
                              ELSE EmitAll(ast, enum_data.value,
                                           variants_data.value)))

\* enum EnemyBehavior of the example, as the derive macro receives it
EnemyBehaviorInput ==
    [ident |-> "EnemyBehavior", data |-> "Enum",
     attrs |-> <<YoetzAttr(<<Sub("key_enum", <<Sub("derive", <<"Debug">>)>>),
                            Sub("strategy_structs", <<Sub("derive", <<"Debug">>)>>)>>)>>,
     variants |->
         <<[name |-> "Idle", kind |-> "Unit", fields |-> <<>>],
           [name |-> "Chase", kind |-> "Named",
            fields |-> << <<YoetzAttr(<<Flag("key")>>)>>,
                          <<YoetzAttr(<<Flag("input")>>)>> >>],
           [name |-> "Circle", kind |-> "Named",
            fields |-> << <<YoetzAttr(<<Flag("key")>>)>>,
                          <<YoetzAttr(<<Flag("input")>>)>>,
                          <<YoetzAttr(<<Flag("state")>>)>> >>]>>]

\* the crate of the example has been compiled: the macro has run on its enum
Compiled ==
    /\ derive_input = EnemyBehaviorInput
    /\ derive_output = Some(ImplSuggestion(EnemyBehaviorInput))

----------------------------------------------------------------------------
(* The program: the entity is spawned with YoetzAdvisor::new(bonus) and the *)
(* schedule runs over and over                                              *)

Init ==
    /\ \E bonus \in Bonuses : New(bonus)
    /\ components = NoComponents
    /\ commands = <<>>
    /\ ran = NothingRan
    /\ offered = <<>>
    /\ winner_idx = 0
    /\ taken = None
    /\ old_active = None
    /\ Compiled

Next ==
    \/ SuggestSystem
    \/ SuggestSystemSilent
    \/ UpdateAdvisor
    \/ ApplyDeferred
    \/ ActSystem
    \/ ActSystemWritesState
    \/ ExternalRemove
    \/ EndRun

Spec == Init /\ [][Next]_vars

----------------------------------------------------------------------------
(* Properties of the selection made by suggest *)

\* the effective score of a suggest call: its score, plus the consistency
\* bonus when its key is the active key
Effective(o) ==
    o.score + (IF active_key # None /\ Unwrap(active_key) = o.key
               THEN consistency_bonus ELSE 0)

\* the greatest effective score among the first n suggest calls
MaxEffective(n) ==
    CHOOSE m \in {Effective(offered[i]) : i \in 1..n} :
        \A i \in 1..n : Effective(offered[i]) <= m

\* the suggest calls that reach the greatest effective score
Best == {i \in 1..Len(offered) : Effective(offered[i]) = MaxEffective(Len(offered))}

\* C1: the pending suggestion, which the Decide pass takes, is one with the
\* greatest effective score among the suggestions offered in the cycle
C1_MaxWithHysteresis ==
    winner_idx # 0 => winner_idx \in Best

\* the first suggest call that reaches the greatest effective score
FirstBest == CHOOSE i \in Best : \A j \in Best : i <= j

\* C2 as stated: when several suggestions reach the greatest effective score,
\* the winner is the behaviour offered first among them
C2_TieEarlierWins ==
    (winner_idx # 0 /\ Cardinality(Best) >= 2)
        => Key(Unwrap(top_suggestion)[2]) = offered[FirstBest].key

\* C2 as amended: when the suggestion offered last has an effective score equal
\* to the greatest effective score of those offered before it, the last one is
\* the winner
C2_TieLaterWins ==
    (/\ Len(offered) >= 2
     /\ Effective(offered[Len(offered)]) = MaxEffective(Len(offered) - 1))
        => winner_idx = Len(offered)

\* C2 witness: Idle offered before the active Chase, which ties with it only
\* through its bonus, and the later one is pending
C2_Witness ==
    /\ Len(offered) = 2
    /\ active_key # None
    /\ offered[1].key = KeyIdle
    /\ offered[2].key = Unwrap(active_key)
    /\ offered[2].key.variant = "Chase"
    /\ offered[2].score < offered[1].score
    /\ Effective(offered[2]) = Effective(offered[1])
    /\ winner_idx = 2
    /\ Key(Unwrap(top_suggestion)[2]) = Unwrap(active_key)

\* C3: when the active behaviour was re-suggested with score a, a pending
\* suggestion of another identity has a score of at least a + consistency_bonus
C3_HysteresisMargin ==
    (/\ winner_idx # 0
     /\ active_key # None
     /\ offered[winner_idx].key # Unwrap(active_key))
        => \A i \in 1..Len(offered) :
               offered[i].key = Unwrap(active_key)
                   => offered[winner_idx].score >= offered[i].score + consistency_bonus

----------------------------------------------------------------------------
(* Properties of the Decide pass and of its deferred commands *)

\* the step in which update_advisor runs, and the one in which its commands
\* are applied
DecideStep == ran.Think = 0 /\ ran'.Think = 1
ApplyStep == ran.Sync = 0 /\ ran'.Sync = 1

\* the slots that hold a Behavior Record
Attached(comps) == {slot \in Slots : comps[slot] # None}

\* the slot that holds the records of a variant
SlotOfVariant(variant) ==
    CASE variant = "Idle" -> "strategy0"
      [] variant = "Chase" -> "strategy1"
      [] variant = "Circle" -> "strategy2"

\* the Behavior Record holding every field of a suggestion
RecordOf(s) ==
    CASE s.variant = "Idle" -> "EnemyBehaviorIdle"
      [] s.variant = "Chase" ->
            [target_entity |-> s.target_entity, vec_to_target |-> s.vec_to_target]
      [] s.variant = "Circle" ->
            [target_entity |-> s.target_entity, vec_to_target |-> s.vec_to_target,
             go_counter_clockwise |-> s.go_counter_clockwise]

\* exactly the Behavior Record of suggestion s is attached
OnlyRecordOf(comps, s) ==
    comps = [NoComponents EXCEPT ![SlotOfVariant(s.variant)] = Some(RecordOf(s))]

\* C4: with no suggestion pending, the Decide pass leaves active_key and the
\* attached record unchanged and queues no command, and the sync point that
\* follows changes neither
C4_IdleRetention ==
    [][/\ (DecideStep /\ top_suggestion = None)
           => /\ active_key' = active_key
              /\ components' = components
              /\ commands' = commands
              /\ commands = <<>>
       /\ (ApplyStep /\ taken = None)
           => /\ active_key' = active_key
              /\ components' = components]_vars

\* C4 witness: a run in which nothing was suggested has been decided and
\* synced, with a behaviour active and its record attached
C4_Witness ==
    /\ ran.Sync = 1
    /\ taken = None
    /\ active_key # None
    /\ Attached(components) = {SlotOfVariant(Unwrap(active_key).variant)}

\* the record in slot has its input field from s and every other field as before
Patched(slot, s) ==
    /\ components'[slot] # None
    /\ Unwrap(components'[slot]).target_entity = Unwrap(components[slot]).target_entity
    /\ Unwrap(components'[slot]).vec_to_target = s.vec_to_target
    /\ slot = "strategy2" =>
           Unwrap(components'[slot]).go_counter_clockwise
               = Unwrap(components[slot]).go_counter_clockwise
    /\ \A other \in Slots \ {slot} : components'[other] = components[other]

\* C5: when the winner's key is the active key and its record is attached, the
\* Decide pass leaves the record's key and state fields as they were and sets
\* its input fields to the winner's
C5_PatchKeepsKeyAndState ==
    [][(/\ DecideStep
        /\ top_suggestion # None
        /\ active_key = Some(Key(Unwrap(top_suggestion)[2]))
        /\ components[SlotOfVariant(Unwrap(top_suggestion)[2].variant)] # None)
           => LET s == Unwrap(top_suggestion)[2]
              IN  IF s.variant = "Idle"
                  THEN components' = components
                  ELSE Patched(SlotOfVariant(s.variant), s)]_vars

\* C5 witness: the Decide pass has patched a Circle record whose state field
\* differs from the winner's
C5_Witness ==
    /\ ran.Think = 1
    /\ ran.Sync = 0
    /\ taken # None
    /\ old_active = Some(Key(Unwrap(taken)))
    /\ commands = <<>>
    /\ Unwrap(taken).variant = "Circle"
    /\ components.strategy2 # None
    /\ Unwrap(components.strategy2).vec_to_target = Unwrap(taken).vec_to_target
    /\ Unwrap(components.strategy2).go_counter_clockwise
           # Unwrap(taken).go_counter_clockwise

\* C6: when the winner's key differs from the active key, or none was active,
\* then after the Decide pass the winner's key is active and, once the commands
\* are applied, exactly the winner's record is attached, every field from the
\* winner
C6_FullReplacement ==
    [][/\ (DecideStep /\ top_suggestion # None
             /\ active_key # Some(Key(Unwrap(top_suggestion)[2])))
           => active_key' = Some(Key(Unwrap(top_suggestion)[2]))
       /\ (ApplyStep /\ taken # None /\ old_active # Some(Key(Unwrap(taken))))
           => OnlyRecordOf(components', Unwrap(taken))]_vars

\* C6 witness: a record of another variant was attached and the commands that
\* replace it have been applied
C6_Witness ==
    /\ ran.Sync = 1
    /\ taken # None
    /\ old_active # None
    /\ Unwrap(old_active).variant # Unwrap(taken).variant
    /\ OnlyRecordOf(components, Unwrap(taken))
    /\ active_key = Some(Key(Unwrap(taken)))

\* at most one record is attached, and none while no key is active
AtMostOneRecord ==
    /\ Cardinality(Attached(components)) <= 1
    /\ active_key = None => Attached(components) = {}

\* the attached record, if any, is of the active key's variant
TagMatches ==
    active_key # None =>
        \A slot \in Attached(components) :
            slot = SlotOfVariant(Unwrap(active_key).variant)

\* C7 as stated: in every state at most one record is attached, of the active
\* key's variant, and none while no key is active
C7_RecordMatchesActive == AtMostOneRecord /\ TagMatches

\* C7 as amended: the same, the tag being compared only while no command of the
\* Decide pass is waiting to be applied
C7_RecordMatchesActiveOnceApplied ==
    AtMostOneRecord /\ (commands = <<>> => TagMatches)

\* C7 witness: a behaviour of another variant has replaced the active one and
\* the record attached is the new one
C7_Witness ==
    /\ commands = <<>>
    /\ ran.Sync = 1
    /\ taken # None
    /\ old_active # None
    /\ Unwrap(old_active).variant # Unwrap(taken).variant
    /\ Cardinality(Attached(components)) = 1
    /\ TagMatches

\* C8: a system of Suggest runs only before update_advisor, update_advisor only
\* when every system of Suggest has run, a system of Act only after
\* update_advisor, and a run of the schedule ends with update_advisor having
\* run once
C8_PhaseOrdering ==
    [][/\ ran'.Suggest = ran.Suggest + 1 => ran.Think = 0
       /\ ran'.Think = ran.Think + 1 =>
              ran.Suggest = SystemsIn.Suggest /\ ran.Think = 0 /\ ran.Act = 0
       /\ ran'.Act = ran.Act + 1 => ran.Think = 1
       /\ (ran' = NothingRan /\ ran # NothingRan) =>
              ran.Suggest = SystemsIn.Suggest /\ ran.Think = 1]_vars

\* C8 witness: every system of the three sets has run in this run
C8_Witness ==
    /\ ran.Suggest = SystemsIn.Suggest
    /\ ran.Think = 1
    /\ ran.Act = SystemsIn.Act
    /\ taken # None

\* C9: once update_advisor has run, and when the next run of the schedule
\* begins, nothing is pending
C9_PendingCleared ==
    (ran.Think = 1 \/ ran.Suggest = 0) => top_suggestion = None

\* C9 witness: update_advisor took a suggestion and updated the components in
\* place
C9_Witness ==
    /\ ran.Think = 1
    /\ taken # None
    /\ old_active = Some(Key(Unwrap(taken)))
    /\ commands = <<>>
    /\ ran.Sync = 0

\* C10: when the winner's key is the active key and its slot is empty, the
\* Decide pass queues the removal for the old key, then the insertion of the
\* winner's record, and keeps the key active; once applied, exactly the
\* winner's record is attached
C10_DesyncRecovery ==
    [][/\ (/\ DecideStep
           /\ top_suggestion # None
           /\ active_key = Some(Key(Unwrap(top_suggestion)[2]))
           /\ components[SlotOfVariant(Unwrap(top_suggestion)[2].variant)] = None)
           => LET s == Unwrap(top_suggestion)[2]
              IN  /\ commands' =
                         <<[op |-> "remove",
                            slot |-> SlotOfVariant(Unwrap(active_key).variant)],
                           [op |-> "insert", slot |-> SlotOfVariant(s.variant),
                            component |-> RecordOf(s)]>>
                  /\ active_key' = Some(Key(s))
                  /\ top_suggestion' = None
       /\ (/\ ApplyStep
           /\ taken # None
           /\ old_active = Some(Key(Unwrap(taken)))
           /\ commands # <<>>)
           => OnlyRecordOf(components', Unwrap(taken))]_vars

\* C10 witness: the record of the active Circle was gone, Circle won again and
\* the Decide pass queued its commands
C10_Witness ==
    /\ ran.Think = 1
    /\ ran.Sync = 0
    /\ taken # None
    /\ Unwrap(taken).variant = "Circle"
    /\ Unwrap(taken).go_counter_clockwise
    /\ old_active = Some(Key(Unwrap(taken)))
    /\ Attached(components) = {}
    /\ Len(commands) = 2

----------------------------------------------------------------------------
(* Properties of the fields of a record while its behaviour stays active *)

\* the engine acts while a behaviour stays active: update_advisor runs and
\* leaves the active key as it was, or the commands it then queued are applied
EngineStepKeepingKey ==
    \/ DecideStep /\ active_key # None /\ active_key' = active_key
    \/ ApplyStep /\ old_active # None /\ old_active = active_key

SameVariantOtherKey(s) ==
    /\ active_key # None
    /\ s.variant = Unwrap(active_key).variant
    /\ s.variant # "Idle"
    /\ s.target_entity # Unwrap(active_key).target_entity

\* C12: a suggestion of the active variant with another key value is compared
\* by its score alone in suggest, and when it is the winner the Decide pass
\* makes its key active and queues the removal and the insertion that, once
\* applied, leave exactly its record attached, every field from it
C12_SameVariantOtherKeyReplaces ==
    [][/\ (/\ ran'.Suggest = ran.Suggest + 1
           /\ Len(offered') = Len(offered) + 1
           /\ active_key # None
           /\ offered'[Len(offered')].key.variant = Unwrap(active_key).variant
           /\ offered'[Len(offered')].key # Unwrap(active_key)
           /\ top_suggestion # None)
           => IF offered'[Len(offered')].score < Unwrap(top_suggestion)[1]
              THEN top_suggestion' = top_suggestion /\ winner_idx' = winner_idx
              ELSE winner_idx' = Len(offered')
       /\ (/\ DecideStep
           /\ top_suggestion # None
           /\ SameVariantOtherKey(Unwrap(top_suggestion)[2]))
           => LET s == Unwrap(top_suggestion)[2]
              IN  /\ active_key' # active_key
                  /\ Unwrap(active_key').target_entity = s.target_entity
                  /\ commands' =
                         <<[op |-> "remove", slot |-> SlotOfVariant(s.variant)],
                           [op |-> "insert", slot |-> SlotOfVariant(s.variant),
                            component |-> RecordOf(s)]>>
       /\ (/\ ApplyStep
           /\ taken # None
           /\ old_active # None
           /\ Unwrap(old_active).variant = Unwrap(taken).variant
           /\ Unwrap(taken).variant # "Idle"
           /\ Unwrap(old_active).target_entity # Unwrap(taken).target_entity)
           => OnlyRecordOf(components', Unwrap(taken))]_vars

\* C12 witness: Circle on one target was active, Circle on the other target won
\* with another state value, and its record has replaced the old one
C12_Witness ==
    /\ ran.Sync = 1
    /\ taken # None
    /\ old_active # None
    /\ Unwrap(taken).variant = "Circle"
    /\ Unwrap(old_active).variant = "Circle"
    /\ Unwrap(old_active).target_entity # Unwrap(taken).target_entity
    /\ active_key = Some(KeyCircle(Unwrap(taken).target_entity))
    /\ OnlyRecordOf(components, Unwrap(taken))

\* no suggest call of the cycle carries the active key
ActiveNotOffered ==
    /\ active_key # None
    /\ \A i \in 1..Len(offered) : offered[i].key # Unwrap(active_key)

C14_ActiveKeyTransitions ==
    [][/\ active_key # None => active_key' # None
       /\ active_key' # active_key
              => /\ DecideStep
                 /\ top_suggestion # None
                 /\ active_key' = Some(Key(Unwrap(top_suggestion)[2]))
       /\ (DecideStep /\ top_suggestion = None) => active_key' = active_key
       /\ (DecideStep /\ top_suggestion # None
             /\ active_key = Some(Key(Unwrap(top_suggestion)[2])))
              => active_key' = active_key]_vars

\* C14 witness: the active key went from one key to another of the same
\* variant, in a run that followed one in which it had been set
C14_Witness ==
    /\ ran.Think = 1
    /\ taken # None
    /\ old_active # None
    /\ active_key # None
    /\ active_key # old_active
    /\ Unwrap(active_key).variant = "Chase"
    /\ Unwrap(old_active).variant = "Chase"

----------------------------------------------------------------------------
(* Properties of what the systems of Act find *)

\* C15: no system of Act runs before the commands of update_advisor are
\* applied, and when the systems of Act are about to run no command is waiting
\* and, if update_advisor took a suggestion, the record of the active key is the
\* only one attached, with the key and input fields of that suggestion and, if
\* the key changed, with every field of it
C15_CommandsAppliedBeforeAct ==
    /\ ran.Act > 0 => ran.Sync = 1
    /\ ran.Sync = 1 => commands = <<>>
    /\ (ran.Sync = 1 /\ ran.Act = 0 /\ taken # None) =>
           LET s == Unwrap(taken)
               slot == SlotOfVariant(s.variant)
           IN  /\ active_key # None
               /\ Unwrap(active_key).variant = s.variant
               /\ Attached(components) = {slot}
               /\ s.variant # "Idle" =>
                      /\ Unwrap(active_key).target_entity = s.target_entity
                      /\ Unwrap(components[slot]).target_entity = s.target_entity
                      /\ Unwrap(components[slot]).vec_to_target = s.vec_to_target
               /\ old_active # active_key => OnlyRecordOf(components, s)

\* C15 witness: Chase on one target was replaced by Chase on the other, a removal
\* and an insertion on the same slot, and the systems of Act are about to run
C15_Witness ==
    /\ ran.Sync = 1
    /\ ran.Act = 0
    /\ commands = <<>>
    /\ taken # None
    /\ old_active # None
    /\ Unwrap(taken).variant = "Chase"
    /\ Unwrap(old_active).variant = "Chase"
    /\ old_active # active_key
    /\ components.strategy1 = Some(RecordOf(Unwrap(taken)))

----------------------------------------------------------------------------
(* Properties of the generated key and strategy types *)

\* two suggestions are of the same variant and agree on its key fields
SameTagAndKeyFields(s1, s2) ==
    /\ s1.variant = s2.variant
    /\ s1.variant # "Idle" => s1.target_entity = s2.target_entity

\* C16: the key of the pending suggestion equals the key of a suggestion
\* exactly when the two are of the same variant and agree on every key field,
\* whatever their input and state fields; and the active key equals the key of
\* a suggestion exactly when it has the suggestion's variant and key field
C16_KeyEquality ==
    /\ top_suggestion # None =>
           \A s \in Suggestions :
               Key(Unwrap(top_suggestion)[2]) = Key(s)
                   <=> SameTagAndKeyFields(Unwrap(top_suggestion)[2], s)
    /\ \A s \in Suggestions :
           active_key = Some(Key(s)) <=>
               /\ active_key # None
               /\ Unwrap(active_key).variant = s.variant
               /\ s.variant # "Idle" =>
                      Unwrap(active_key).target_entity = s.target_entity

\* C16 witness: the pending suggestion has the active key although its input
\* and state fields differ from those of the attached record
C16_Witness ==
    /\ top_suggestion # None
    /\ active_key = Some(Key(Unwrap(top_suggestion)[2]))
    /\ Unwrap(top_suggestion)[2].variant = "Circle"
    /\ components.strategy2 # None
    /\ Unwrap(components.strategy2).target_entity
           = Unwrap(top_suggestion)[2].target_entity
    /\ Unwrap(components.strategy2).vec_to_target
           # Unwrap(top_suggestion)[2].vec_to_target
    /\ Unwrap(components.strategy2).go_counter_clockwise
           # Unwrap(top_suggestion)[2].go_counter_clockwise

\* the key read back from a record: the variant of its slot, its key fields
KeyOfRecord(slot, record) ==
    CASE slot = "strategy0" -> [variant |-> "Idle"]
      [] slot = "strategy1" ->
            [variant |-> "Chase", target_entity |-> record.target_entity]
      [] slot = "strategy2" ->
            [variant |-> "Circle", target_entity |-> record.target_entity]

\* the keys read back from the records attached
ReadBackKeys(comps) ==
    {KeyOfRecord(slot, Unwrap(comps[slot])) : slot \in Attached(comps)}

\* C17: the record add_components would insert for the pending suggestion
\* reads back as the suggestion's key, and so does the record attached once the
\* insertion queued by update_advisor is applied
C17_AddThenReadBack ==
    /\ top_suggestion # None =>
           ReadBackKeys(ApplyCommand(NoComponents,
                                     AddComponents(Unwrap(top_suggestion)[2])))
               = {Key(Unwrap(top_suggestion)[2])}
    /\ (/\ ran.Sync = 1
        /\ ran.Act = 0
        /\ taken # None
        /\ old_active # Some(Key(Unwrap(taken))))
           => /\ ReadBackKeys(components) = {Key(Unwrap(taken))}
              /\ active_key = Some(Key(Unwrap(taken)))

\* C17 witness: the first suggestion taken was Chase on the second target and
\* its record, once inserted, reads back as that key
C17_Witness ==
    /\ ran.Sync = 1
    /\ ran.Act = 0
    /\ taken # None
    /\ old_active = None
    /\ Unwrap(taken).variant = "Chase"
    /\ Unwrap(taken).target_entity = "B"
    /\ ReadBackKeys(components) = {KeyChase("B")}

----------------------------------------------------------------------------
(* Properties of the advisor's configuration *)

\* C18: no step changes consistency_bonus, so it stays the value the advisor
\* was constructed with
C18_BonusImmutable == [][consistency_bonus' = consistency_bonus]_vars

\* C18 witness: with a bonus set, the active behaviour was suggested again,
\* got the bonus and was taken by update_advisor
C18_Witness ==
    /\ consistency_bonus = MaxBonus
    /\ ran.Think = 1
    /\ taken # None
    /\ old_active # None
    /\ old_active = active_key
    /\ Unwrap(active_key).variant = "Idle"

----------------------------------------------------------------------------
(* The engine on an entity in any condition: the strategy components are    *)
(* public, so code outside the engine can have inserted or removed any of   *)
(* them, and each slot of the omni-query is optional on its own             *)

\* every content the omni-query can have
AnyComponents ==
    [strategy0 : {None, Some(EnemyBehaviorIdle)},
     strategy1 : {None} \cup {Some(EnemyBehaviorChase(t, v)) :
                                  t \in Targets, v \in Vecs},
     strategy2 : {None} \cup {Some(EnemyBehaviorCircle(t, v, ccw)) :
                                  t \in Targets, v \in Vecs, ccw \in BOOLEAN}]

\* any advisor: either the last system of Suggest is about to run on an entity
\* without components, or update_advisor is about to run on an entity with any
\* components
InitAnyAccessor ==
    /\ consistency_bonus \in Bonuses
    /\ active_key \in {None} \cup {Some(k) : k \in Keys}
    /\ \E pending \in {None} \cup {Some(<<score, s>>) :
                                       score \in Scores, s \in Suggestions} :
           /\ top_suggestion = pending
           /\ offered = IF pending = None THEN <<>>
                        ELSE <<[score |-> Unwrap(pending)[1],
                                key |-> Key(Unwrap(pending)[2])]>>
           /\ winner_idx = IF pending = None THEN 0 ELSE 1
    /\ \/ /\ ran = [NothingRan EXCEPT !.Suggest = SystemsIn.Suggest - 1]
          /\ components = NoComponents
       \/ /\ ran = [NothingRan EXCEPT !.Suggest = SystemsIn.Suggest]
          /\ components \in AnyComponents
    /\ commands = <<>>
    /\ taken = None
    /\ old_active = None
    /\ Compiled

NextAnyAccessor ==
    \/ SuggestSystem
    \/ UpdateAdvisor
    \/ ApplyDeferred

SpecAnyAccessor == InitAnyAccessor /\ [][NextAnyAccessor]_vars

\* C19: whatever the advisor holds, suggest has an outcome for every score and
\* suggestion, and whatever the advisor and the omni-query hold, update_advisor
\* has an outcome when its turn comes
C19_NeverFatal ==
    /\ CanRun("Suggest") =>
           \A score \in Scores, s \in Suggestions : ENABLED Suggest(score, s)
    /\ CanRun("Think") => ENABLED UpdateAdvisor

\* C19 witness: update_advisor has run on an entity that had two records
\* attached, neither of them of the active key, and took a suggestion of the
\* active key
C19_Witness ==
    /\ ran.Think = 1
    /\ taken # None
    /\ old_active = Some(Key(Unwrap(taken)))
    /\ Cardinality(Attached(components)) = 2
    /\ SlotOfVariant(Unwrap(taken).variant) \notin Attached(components)
    /\ Len(commands) = 2

----------------------------------------------------------------------------
(* The enemy of the example followed through its first cycles: the advisor  *)
(* is created with a bonus of 2.0, Idle is suggested at 5.0, and Chase of   *)
(* the player at 5.0 from a distance of 5 and at 7.0 from a distance of 3   *)

\* YoetzAdvisor::<EnemyBehavior>::new(2.0)
ScenarioBonus == 2

\* the suggest calls of the scenario: score and suggestion
ScenarioOffers == {<<5, Chase("A", 5)>>, <<7, Chase("A", 3)>>, <<5, Idle>>}

InitScenario ==
    /\ New(ScenarioBonus)
    /\ components = NoComponents
    /\ commands = <<>>
    /\ ran = NothingRan
    /\ offered = <<>>
    /\ winner_idx = 0
    /\ taken = None
    /\ old_active = None
    /\ Compiled

\* a system of the Suggest set making one of the scenario's suggest calls
SuggestScenario ==
    /\ CanRun("Suggest")
    /\ ran' = Ran("Suggest")
    /\ \E o \in ScenarioOffers :
           /\ Suggest(o[1], o[2])
           /\ offered' = Append(offered, [score |-> o[1], key |-> Key(o[2])])
           /\ winner_idx' =
                  IF Rejected(o[1], o[2]) THEN winner_idx ELSE Len(offered) + 1
    /\ UNCHANGED <<components, commands, decided>>
    /\ UNCHANGED expansion

NextScenario ==
    \/ SuggestScenario
    \/ SuggestSystemSilent
    \/ UpdateAdvisor
    \/ ApplyDeferred
    \/ ActSystem
    \/ EndRun

SpecScenario == InitScenario /\ [][NextScenario]_vars

\* C20: with nothing active, a cycle in which only Chase of A from distance 5
\* is suggested, at 5, makes Chase of A active and, once the insertion is
\* applied, attaches its record with distance 5; with that record attached, a
\* cycle in which Chase of A from distance 3 is suggested at 7 and Idle at 5,
\* in either order, has Chase pending when update_advisor runs, which sets the
\* distance of the attached record to 3, queues no command and keeps the key
C20_Scenario ==
    [][/\ (/\ DecideStep
           /\ active_key = None
           /\ offered = <<[score |-> 5, key |-> KeyChase("A")]>>)
           => /\ top_suggestion = Some(<<5, Chase("A", 5)>>)
              /\ active_key' = Some(KeyChase("A"))
              /\ commands' =
                     <<[op |-> "insert", slot |-> "strategy1",
                        component |-> [target_entity |-> "A", vec_to_target |-> 5]]>>
       /\ (/\ ApplyStep
           /\ old_active = None
           /\ taken = Some(Chase("A", 5)))
           => OnlyRecordOf(components', Chase("A", 5))
       /\ (/\ DecideStep
           /\ active_key = Some(KeyChase("A"))
           /\ OnlyRecordOf(components, Chase("A", 5))
           /\ offered \in {<<[score |-> 7, key |-> KeyChase("A")],
                             [score |-> 5, key |-> KeyIdle]>>,
                           <<[score |-> 5, key |-> KeyIdle],
                             [score |-> 7, key |-> KeyChase("A")]>>})
           => /\ top_suggestion = Some(<<7, Chase("A", 3)>>)
              /\ OnlyRecordOf(components', Chase("A", 3))
              /\ commands = <<>>
              /\ commands' = <<>>
              /\ active_key' = active_key]_vars

\* C20 witness: Chase of A was active, update_advisor took Chase of A from
\* distance 3, and the attached record has distance 3 with no command queued
C20_Witness ==
    /\ consistency_bonus = ScenarioBonus
    /\ ran.Think = 1
    /\ ran.Sync = 0
    /\ taken = Some(Chase("A", 3))
    /\ old_active = Some(KeyChase("A"))
    /\ active_key = old_active
    /\ OnlyRecordOf(components, Chase("A", 3))
    /\ commands = <<>>

----------------------------------------------------------------------------
(* Several entities with an advisor. In this specification every variable   *)
(* of the entity maps each entity of the query to its value, and a deferred *)
(* command carries the entity it was queued for.                            *)

\* the entities update_advisor's query matches
Entities == {"e1", "e2"}

\* the orders in which the query can yield them
Orders == {<<"e1", "e2">>, <<"e2", "e1">>}

\* what the systems of the example suggest to an enemy
EntitySuggestions == {Idle, Chase("A", 0), Chase("A", 1), Chase("B", 0)}

\* the advisors, the components and the command queue
World ==
    [active_key |-> active_key, top_suggestion |-> top_suggestion,
     components |-> components, commands |-> commands]

\* YoetzAdvisor::suggest on an advisor: the top_suggestion it is left with
PendingAfter(bonus, active, pending, score, s) ==
    LET applied == IF active # None /\ Unwrap(active) = Key(s) THEN bonus ELSE 0
    IN  IF pending # None /\ score + applied < Unwrap(pending)[1]
        THEN pending
        ELSE Some(<<score, s>>)

\* commands.entity(entity), then remove_components(old_key) if a key was active,
\* then add_components, then the key is stored
QueueFor(w, e, old, suggestion) ==
    [w EXCEPT
        !.commands =
            @ \o (IF old = None THEN <<>>
                  ELSE <<[entity |-> e] @@ RemoveComponents(Unwrap(old))>>)
              \o <<[entity |-> e] @@ AddComponents(suggestion)>>,
        !.active_key[e] = Some(Key(suggestion))]

\* UpdateEntity, were the commands of every entity queued on the first one
UpdateEntityOnFirst(w, e) ==
    IF w.top_suggestion[e] = None THEN w
    ELSE LET suggestion == Unwrap(w.top_suggestion[e])[2]
             took == [w EXCEPT !.top_suggestion[e] = None]
             update_result == UpdateIntoComponents(suggestion, w.components[e])
             queued(old, s) ==
                 [QueueFor(took, "e1", old, s) EXCEPT
                     !.active_key = [took.active_key EXCEPT ![e] = Some(Key(s))]]
         IN  IF w.active_key[e] = None
             THEN queued(None, suggestion)
             ELSE IF Unwrap(w.active_key[e]) = Key(suggestion)
             THEN IF update_result.ok
                  THEN [took EXCEPT !.components[e] = update_result.components]
                  ELSE queued(w.active_key[e], Unwrap(update_result.err))
             ELSE queued(w.active_key[e], suggestion)

\* the body of update_advisor's loop for entity e
UpdateEntity(w, e) ==
    IF w.top_suggestion[e] = None THEN w
    ELSE LET suggestion == Unwrap(w.top_suggestion[e])[2]
             took == [w EXCEPT !.top_suggestion[e] = None]
             update_result == UpdateIntoComponents(suggestion, w.components[e])
         IN  IF w.active_key[e] = None
             THEN QueueFor(took, e, None, suggestion)
             ELSE IF Unwrap(w.active_key[e]) = Key(suggestion)
             THEN IF update_result.ok
                  THEN [took EXCEPT !.components[e] = update_result.components]
                  ELSE QueueFor(took, e, w.active_key[e], Unwrap(update_result.err))
             ELSE QueueFor(took, e, w.active_key[e], suggestion)

RECURSIVE UpdateEntities(_, _)
\* the loop of update_advisor over the entities in the order the query yields
UpdateEntities(w, order) ==
    IF order = <<>> THEN w
    ELSE UpdateEntities(UpdateEntity(w, Head(order)), Tail(order))

RECURSIVE ApplyEntityCommands(_, _)
\* the queue applied in order, each command to the entity it was queued for
ApplyEntityCommands(comps, queue) ==
    IF queue = <<>> THEN comps
    ELSE ApplyEntityCommands(
             [comps EXCEPT ![Head(queue).entity] = ApplyCommand(@, Head(queue))],
             Tail(queue))

\* every entity is spawned with an advisor of the same bonus and no components
InitEntities ==
    /\ \E bonus \in Bonuses : consistency_bonus = [e \in Entities |-> bonus]
    /\ active_key = [e \in Entities |-> None]
    /\ top_suggestion = [e \in Entities |-> None]
    /\ components = [e \in Entities |-> NoComponents]
    /\ commands = <<>>
    /\ ran = NothingRan
    /\ offered = <<>>
    /\ winner_idx = 0
    /\ taken = None
    /\ old_active = None
    /\ Compiled

\* a system of the Suggest set: for each entity it suggests something or not
SuggestSystemEntities ==
    /\ CanRun("Suggest")
    /\ ran' = Ran("Suggest")
    /\ \E call \in [Entities ->
                      {None} \cup {Some(<<score, s>>) :
                                       score \in Scores, s \in EntitySuggestions}] :
           top_suggestion' =
               [e \in Entities |->
                   IF call[e] = None THEN top_suggestion[e]
                   ELSE PendingAfter(consistency_bonus[e], active_key[e],
                                     top_suggestion[e],
                                     Unwrap(call[e])[1], Unwrap(call[e])[2])]
    /\ UNCHANGED <<consistency_bonus, active_key, components, commands,
                   history, decided>>
    /\ UNCHANGED expansion

\* update_advisor over all the entities of its query
UpdateAdvisorEntities ==
    /\ CanRun("Think")
    /\ ran' = Ran("Think")
    /\ \E order \in Orders :
           LET w == UpdateEntities(World, order)
           IN  /\ active_key' = w.active_key
               /\ top_suggestion' = w.top_suggestion
               /\ components' = w.components
               /\ commands' = w.commands
    /\ UNCHANGED <<consistency_bonus, history, decided>>
    /\ UNCHANGED expansion

\* the sync point after update_advisor
ApplyDeferredEntities ==
    /\ CanRun("Sync")
    /\ ran' = Ran("Sync")
    /\ components' = ApplyEntityCommands(components, commands)
    /\ commands' = <<>>
    /\ UNCHANGED <<advisor, history, decided>>
    /\ UNCHANGED expansion

NextEntities ==
    \/ SuggestSystemEntities
    \/ UpdateAdvisorEntities
    \/ ApplyDeferredEntities
    \/ ActSystem
    \/ EndRun

SpecEntities == InitEntities /\ [][NextEntities]_vars

\* the commands of a queue that were queued for entity e
CommandsFor(queue, e) ==
    SelectSeq(queue, LAMBDA cmd : cmd.entity = e)

\* what the loop body leaves of entity e: its advisor, its components, the
\* commands queued for it
EntityPart(w, e) ==
    <<w.active_key[e], w.top_suggestion[e], w.components[e],
      CommandsFor(w.commands, e)>>

\* C21: update_advisor leaves every entity, and the commands queued for it, as
\* the loop body run for that entity alone would, whatever the order in which
\* the query yields the entities; so every order leaves the same advisors and
\* components, the same commands per entity, and the same components once the
\* commands are applied
C21_EntitiesIndependent ==
    [][DecideStep =>
           /\ \A e \in Entities :
                  /\ EntityPart(World', e) = EntityPart(UpdateEntity(World, e), e)
                  /\ \A other \in Entities \ {e} :
                         EntityPart(UpdateEntity(World, e), other)
                             = EntityPart(World, other)
           /\ \A order \in Orders :
                  LET w == UpdateEntities(World, order)
                  IN  /\ w.active_key = active_key'
                      /\ w.top_suggestion = top_suggestion'
                      /\ w.components = components'
                      /\ ApplyEntityCommands(w.components, w.commands)
                             = ApplyEntityCommands(components', commands')]_vars

\* C21 witness: in one pass update_advisor replaced the behaviour of one entity
\* and patched that of the other
C21_Witness ==
    /\ ran.Think = 1
    /\ ran.Sync = 0
    /\ Len(commands) = 2
    /\ \E e \in Entities :
           /\ CommandsFor(commands, e) = commands
           /\ \A other \in Entities \ {e} :
                  /\ active_key[other] # None
                  /\ Unwrap(active_key[other]).variant = "Chase"
                  /\ components[other].strategy1 # None
                  /\ Unwrap(components[other].strategy1).vec_to_target = 1

----------------------------------------------------------------------------
(* Properties of update_into_components and of the pending suggestion *)

\* C22: whatever the omni-query holds, for a suggestion whose variant's slot is
\* empty update_into_components returns Err with a suggestion equal to the one
\* passed in and leaves every slot as it was
C22_PatchOnAbsentSlot ==
    \A s \in Suggestions :
        components[SlotOfVariant(s.variant)] = None =>
            LET update_result == UpdateIntoComponents(s, components)
            IN  /\ ~update_result.ok
                /\ update_result.err = Some(s)
                /\ update_result.components = components

\* C22 witness: update_advisor took a Circle suggestion of the active key with
\* the state field set while only a Chase record was attached; the record is as
\* it was and the insertion queued carries every field of the suggestion
C22_Witness ==
    /\ ran.Think = 1
    /\ ran.Sync = 0
    /\ taken # None
    /\ Unwrap(taken).variant = "Circle"
    /\ Unwrap(taken).go_counter_clockwise
    /\ old_active = Some(Key(Unwrap(taken)))
    /\ Attached(components) = {"strategy1"}
    /\ Len(commands) = 2
    /\ commands[2].component = RecordOf(Unwrap(taken))

----------------------------------------------------------------------------
(* The schedule with a system that suggests the same thing in every run,    *)
(* like make_ai_entities_do_nothing of the crate documentation              *)

\* advisor.suggest(0.0, AiBehavior::DoNothing)
BaselineScore == 0

\* the constant suggestion has been made in this run
BaselineOffered ==
    \E i \in 1..Len(offered) :
        offered[i] = [score |-> BaselineScore, key |-> KeyIdle]

\* the system that makes the constant suggestion
BaselineSystem ==
    /\ CanRun("Suggest")
    /\ ran' = Ran("Suggest")
    /\ Suggest(BaselineScore, Idle)
    /\ offered' = Append(offered, [score |-> BaselineScore, key |-> KeyIdle])
    /\ winner_idx' =
           IF Rejected(BaselineScore, Idle) THEN winner_idx ELSE Len(offered) + 1
    /\ UNCHANGED <<components, commands, decided>>
    /\ UNCHANGED expansion

\* the other systems of the Suggest set, which the scheduler runs before or
\* after the constant one
OtherSuggestSystem ==
    /\ BaselineOffered \/ ran.Suggest < SystemsIn.Suggest - 1
    /\ SuggestSystem \/ SuggestSystemSilent

NextBaseline ==
    \/ BaselineSystem
    \/ OtherSuggestSystem
    \/ UpdateAdvisor
    \/ ApplyDeferred
    \/ ActSystem
    \/ ActSystemWritesState
    \/ ExternalRemove
    \/ EndRun

SpecBaseline == Init /\ [][NextBaseline]_vars

\* C23: with the constant suggestion made in every run, a key is active once
\* update_advisor has run and stays so, and when the systems of Act are about to
\* run exactly one record is attached, that of the active key
C23_BaselineKeepsBehavior ==
    [][/\ ran'.Think = 1 => active_key' # None
       /\ active_key # None => active_key' # None
       /\ (ran'.Sync = 1 /\ ran'.Act = 0) =>
              /\ Cardinality(Attached(components')) = 1
              /\ Attached(components')
                     = {SlotOfVariant(Unwrap(active_key').variant)}]_vars

\* C23 witness: in a later run the record had been removed by code outside the
\* engine, only the constant suggestion was made, and its record is attached
\* when the systems of Act are about to run
C23_Witness ==
    /\ ran.Sync = 1
    /\ ran.Act = 0
    /\ taken = Some(Idle)
    /\ old_active = Some(KeyIdle)
    /\ active_key = Some(KeyIdle)
    /\ components = [NoComponents EXCEPT !.strategy0 = Some("EnemyBehaviorIdle")]
    /\ consistency_bonus = 0

----------------------------------------------------------------------------
(* The derive macro run on the enums a crate can declare *)

\* the sequences of at most two elements of a set
UpToTwo(S) == {<<>>} \cup {<<a>> : a \in S} \cup {<<a, b>> : a \in S, b \in S}

\* the parameters written on a field: the three roles, a role given a value,
\* and a name that is no role
FieldArgs ==
    {Flag("key"), Flag("input"), Flag("state"), KeyValue("key"), Flag("speed")}

\* the attributes written on a field: a yoetz list of no parameter or of one, a
\* yoetz path, a doc comment
FieldAttrs ==
    {YoetzAttr(<<>>), YoetzPathAttr, DocAttr}
    \cup {YoetzAttr(<<arg>>) : arg \in FieldArgs}

\* the fields, each its attributes: none, one yoetz list of up to two
\* parameters, or two attributes
Fields ==
    {<<>>}
    \cup {<<YoetzAttr(args)>> : args \in UpToTwo(FieldArgs)}
    \cup UpToTwo(FieldAttrs)

\* the attributes written on the enum
EnumAttrs ==
    {<<>>,
     <<YoetzAttr(<<Sub("key_enum", <<Sub("derive", <<"Debug">>)>>)>>)>>,
     <<YoetzAttr(<<Sub("strategy_structs", <<Sub("derive", <<"Debug">>)>>)>>)>>,
     <<YoetzAttr(<<Flag("builder")>>)>>,
     <<YoetzAttr(<<Sub("key_enum", <<Flag("rename")>>)>>)>>,
     <<YoetzAttr(<<Sub("strategy_structs",
                       <<Sub("derive", <<"Debug">>), Not("serde")>>)>>)>>,
     <<YoetzAttr(<<Flag("key_enum"), Flag("builder")>>)>>}

\* the variant under study: a struct or tuple variant with one field, a tuple
\* variant without fields, a unit variant
StudiedVariants ==
    {[name |-> "Attack", kind |-> kind, fields |-> <<field>>] :
         kind \in {"Named", "Unnamed"}, field \in Fields}
    \cup {[name |-> "Attack", kind |-> "Unnamed", fields |-> <<>>],
          [name |-> "Attack", kind |-> "Unit", fields |-> <<>>]}

\* the variants declared next to it
OtherVariants ==
    {[name |-> "Rest", kind |-> "Unit", fields |-> <<>>],
     [name |-> "Rest", kind |-> "Named",
      fields |-> << <<DocAttr, YoetzAttr(<<Flag("input")>>)>> >>],
     [name |-> "Rest", kind |-> "Unnamed",
      fields |-> << <<YoetzAttr(<<Flag("key")>>)>>,
                    <<YoetzAttr(<<Flag("input")>>)>> >>]}

\* the items derive(YoetzSuggestion) is written on
DeriveInputs ==
    {[ident |-> "Behavior", data |-> "Enum", attrs |-> attrs, variants |-> variants] :
         attrs \in EnumAttrs,
         variants \in {<<v>> : v \in StudiedVariants}
                      \cup {<<v, w>> : v \in StudiedVariants, w \in OtherVariants}
                      \cup {<<w, v>> : v \in StudiedVariants, w \in OtherVariants}}
    \cup {[ident |-> "Behavior", data |-> "Struct", attrs |-> <<>>,
           variants |-> <<>>]}

\* the compiler is about to expand the derive; no program runs yet
InitDerive ==
    /\ derive_input \in DeriveInputs
    /\ derive_output = None
    /\ New(0)
    /\ components = NoComponents
    /\ commands = <<>>
    /\ ran = NothingRan
    /\ offered = <<>>
    /\ winner_idx = 0
    /\ taken = None
    /\ old_active = None

\* derive_suggestion: impl_suggestion(&input), its Ok the generated code, its Err
\* a compile error
DeriveSuggestion ==
    /\ derive_output = None
    /\ derive_output' = Some(ImplSuggestion(derive_input))
    /\ UNCHANGED <<advisor, components, commands, ran, history, decided,
                   derive_input>>

NextDerive == DeriveSuggestion

SpecDerive == InitDerive /\ [][NextDerive]_vars

\* the parameter is a role tag
IsRoleTag(expr) == expr.form = "Flag" /\ expr.name \in {"key", "input", "state"}

RECURSIVE RoleTags(_)
\* the role tags of a field, over all its yoetz attributes
RoleTags(field) ==
    IF field = <<>> THEN <<>>
    ELSE (IF Head(field).path = "yoetz"
          THEN SelectSeq(Head(field).tokens, IsRoleTag)
          ELSE <<>>) \o RoleTags(Tail(field))

\* the fields of all the variants of an input
FieldsOf(ast) ==
    UNION {{ast.variants[i].fields[j] : j \in 1..Len(ast.variants[i].fields)} :
               i \in 1..Len(ast.variants)}

\* every yoetz attribute of the field is a non-empty list of role tags
OnlyRoleTags(field) ==
    \A i \in 1..Len(field) :
        field[i].path = "yoetz" =>
            /\ field[i].meta = "List"
            /\ field[i].tokens # <<>>
            /\ \A k \in 1..Len(field[i].tokens) : IsRoleTag(field[i].tokens[k])

\* C24: an enum with a field that has no role tag, or more than one, in one
\* attribute or in several, alike or not, is refused; a field with nothing but
\* role tags passes FieldConfig::new_for exactly when it has one, which is then
\* its role; and an enum whose fields all have nothing but one role tag is
\* never refused for a role
C24_FieldRoleValidation ==
    (derive_output # None /\ derive_input.data = "Enum") =>
        LET output == Unwrap(derive_output)
        IN  /\ (\E field \in FieldsOf(derive_input) : Len(RoleTags(field)) # 1)
                   => ~output.ok
            /\ \A field \in FieldsOf(derive_input) :
                   OnlyRoleTags(field) =>
                       /\ FieldConfigNewFor(field).ok <=> Len(RoleTags(field)) = 1
                       /\ FieldConfigNewFor(field).ok =>
                              FieldConfigNewFor(field).value.role
                                  = Some(RoleTags(field)[1].name)
            /\ (/\ \A field \in FieldsOf(derive_input) :
                       OnlyRoleTags(field) /\ Len(RoleTags(field)) = 1
                /\ ~output.ok)
                   => output.error.message
                          \notin {RoleMissing.message, "field role given more than once"}

\* C24 witness: a field tagged key in one attribute and input in another was
\* refused for having a role given more than once
C24_Witness ==
    /\ derive_output = Some(Err(RoleGivenTwice(Flag("input"))))
    /\ derive_input.variants[1].kind = "Named"
    /\ derive_input.variants[1].fields[1]
           = <<YoetzAttr(<<Flag("key")>>), YoetzAttr(<<Flag("input")>>)>>

\* C25: an enum with a tuple variant, whatever its fields and their tags and
\* whatever else the enum declares, is refused with an error, and nothing is
\* generated
C25_TupleVariantsRejected ==
    (/\ derive_output # None
     /\ \E i \in 1..Len(derive_input.variants) :
            derive_input.variants[i].kind = "Unnamed")
        => /\ ~Unwrap(derive_output).ok
           /\ "error" \in DOMAIN Unwrap(derive_output)
           /\ "value" \notin DOMAIN Unwrap(derive_output)

\* C25 witness: an enum whose only offence is a tuple variant with two tagged
\* fields, declared before a struct variant, was refused for the tuple variant
C25_Witness ==
    /\ derive_output = Some(Err(TupleUnsupported))
    /\ Len(derive_input.variants) = 2
    /\ derive_input.variants[1].kind = "Unnamed"
    /\ Len(derive_input.variants[1].fields) = 2
    /\ derive_input.variants[2].kind = "Named"
    /\ derive_input.variants[2].fields[1] = <<YoetzAttr(<<Flag("state")>>)>>

\* the yoetz list attributes among some attributes
YoetzLists(attrs) ==
    {i \in 1..Len(attrs) : attrs[i].path = "yoetz" /\ attrs[i].meta = "List"}

\* the names of the parameters of an input that are not known where they stand:
\* on the enum, inside key_enum or strategy_structs, on a field
UnknownNames(ast) ==
    {ast.attrs[i].tokens[k].name :
         <<i, k>> \in {<<i, k>> \in YoetzLists(ast.attrs) \X (1..2) :
                           /\ k <= Len(ast.attrs[i].tokens)
                           /\ ast.attrs[i].tokens[k].name
                                  \notin {"key_enum", "strategy_structs"}}}
    \cup UNION {{ast.attrs[i].tokens[k].args[m].name :
                     m \in {m \in 1..Len(ast.attrs[i].tokens[k].args) :
                                ast.attrs[i].tokens[k].args[m].name # "derive"}} :
                    <<i, k>> \in {<<i, k>> \in YoetzLists(ast.attrs) \X (1..2) :
                                      /\ k <= Len(ast.attrs[i].tokens)
                                      /\ ast.attrs[i].tokens[k].form = "Sub"
                                      /\ ast.attrs[i].tokens[k].name
                                             \in {"key_enum", "strategy_structs"}}}
    \cup UNION {{field[i].tokens[k].name :
                     <<i, k>> \in {<<i, k>> \in YoetzLists(field) \X (1..2) :
                                       /\ k <= Len(field[i].tokens)
                                       /\ field[i].tokens[k].name
                                              \notin {"key", "input", "state"}}} :
                    field \in FieldsOf(ast)}

InsertAt(s, k, x) == SubSeq(s, 1, k) \o <<x>> \o SubSeq(s, k + 1, Len(s))

\* a parameter of a name nothing knows, in each of the four forms
UnknownArgs ==
    {Flag("timeout"), KeyValue("timeout"), Sub("timeout", <<>>), Not("timeout")}

\* the inputs got from ast by writing one such parameter somewhere: in a new
\* attribute of the enum or in one it has, inside key_enum or strategy_structs,
\* in a new attribute of a field or in one it has
WithUnknownParameter(ast) ==
    {[ast EXCEPT !.attrs = InsertAt(@, k, YoetzAttr(<<u>>))] :
         k \in 0..Len(ast.attrs), u \in UnknownArgs}
    \cup UNION {{[ast EXCEPT !.attrs[i].tokens = InsertAt(@, k, u)] :
                     k \in 0..Len(ast.attrs[i].tokens), u \in UnknownArgs} :
                    i \in YoetzLists(ast.attrs)}
    \cup UNION {UNION {{[ast EXCEPT !.attrs[i].tokens[j].args = InsertAt(@, k, u)] :
                            k \in 0..Len(ast.attrs[i].tokens[j].args),
                            u \in UnknownArgs} :
                           j \in {j \in 1..Len(ast.attrs[i].tokens) :
                                      ast.attrs[i].tokens[j].form = "Sub"}} :
                    i \in YoetzLists(ast.attrs)}
    \cup UNION {UNION {{[ast EXCEPT !.variants[v].fields[f] =
                                        InsertAt(@, k, YoetzAttr(<<u>>))] :
                            k \in 0..Len(ast.variants[v].fields[f]),
                            u \in UnknownArgs} :
                           f \in 1..Len(ast.variants[v].fields)} :
                    v \in 1..Len(ast.variants)}
    \cup UNION {UNION {UNION {{[ast EXCEPT !.variants[v].fields[f][a].tokens =
                                               InsertAt(@, k, u)] :
                                   k \in 0..Len(ast.variants[v].fields[f][a].tokens),
                                   u \in UnknownArgs} :
                                  a \in YoetzLists(ast.variants[v].fields[f])} :
                           f \in 1..Len(ast.variants[v].fields)} :
                    v \in 1..Len(ast.variants)}

----------------------------------------------------------------------------
(* suggest, call by call *)

\* a step in which suggest is called on the advisor
SuggestStep == Len(offered') = Len(offered) + 1

\* the bonus suggest gives to a call for a key
BonusForKey(key) ==
    IF active_key # None /\ Unwrap(active_key) = key
    THEN consistency_bonus
    ELSE 0

\* the call of the step has become the pending suggestion, with its own score
CallBecamePending ==
    LET call == offered'[Len(offered')]
    IN  /\ top_suggestion' # None
        /\ Unwrap(top_suggestion')[1] = call.score
        /\ Unwrap(top_suggestion')[2] \in Suggestions
        /\ Unwrap(top_suggestion')[2].variant = call.key.variant
        /\ call.key.variant # "Idle" =>
               Unwrap(top_suggestion')[2].target_entity = call.key.target_entity
        /\ winner_idx' = Len(offered')

\* C27: while a suggestion is pending its stored score is the score of the
\* call that set it, without any bonus; a call suggest(score, s) replaces it if
\* and only if score + bonus >= that stored score, and leaves it as it was
\* otherwise
C27_SuggestReplacementRule ==
    /\ [](top_suggestion # None =>
              /\ winner_idx \in 1..Len(offered)
              /\ Unwrap(top_suggestion)[1] = offered[winner_idx].score)
    /\ [][(SuggestStep /\ top_suggestion # None) =>
              LET call == offered'[Len(offered')]
              IN  IF call.score + BonusForKey(call.key) >= Unwrap(top_suggestion)[1]
                  THEN CallBecamePending
                  ELSE /\ top_suggestion' = top_suggestion
                       /\ winner_idx' = winner_idx]_vars

\* C27 witness: the second call of a cycle, for the active behaviour, scored
\* below the pending suggestion, replaced it thanks to the bonus, and the
\* score stored is its own
C27_Witness ==
    /\ Len(offered) = 2
    /\ winner_idx = 2
    /\ offered[2].score < offered[1].score
    /\ active_key = Some(offered[2].key)
    /\ offered[1].key # offered[2].key
    /\ top_suggestion # None
    /\ Unwrap(top_suggestion)[1] = offered[2].score

\* C28: nothing is pending exactly when suggest has not been called since the
\* last update_advisor or since creation; the first call then becomes the
\* pending suggestion whatever its score and key; and update_advisor after a
\* cycle of one call takes the suggestion of that call
C28_FirstSuggestionPends ==
    /\ [](top_suggestion = None <=> offered = <<>>)
    /\ [][(SuggestStep /\ offered = <<>>) => CallBecamePending]_vars
    /\ [][(DecideStep /\ Len(offered) = 1) =>
              /\ taken' = Some(Unwrap(top_suggestion)[2])
              /\ Key(Unwrap(taken')) = offered[1].key
              /\ Unwrap(top_suggestion)[1] = offered[1].score]_vars

\* C28 witness: the only call of a cycle so far, of the lowest score and for a
\* behaviour other than the active one, which has a bonus, is pending
C28_Witness ==
    /\ Len(offered) = 1
    /\ offered[1].score = 0
    /\ consistency_bonus > 0
    /\ active_key # None
    /\ Unwrap(active_key) # offered[1].key
    /\ top_suggestion # None
    /\ Key(Unwrap(top_suggestion)[2]) = offered[1].key
    /\ Unwrap(top_suggestion)[1] = 0

\* the commands a step has queued
Queued == SubSeq(commands', Len(commands) + 1, Len(commands'))

\* C29: a step of update_advisor only appends to the queue, at most a remove
\* and an add; a remove is queued only when the active key was set, and is the
\* remove of that key; when both are queued the remove comes first; and once
\* the commands of a replacement by a suggestion of the same variant and
\* another key are applied, the component of the variant is attached and is
\* that of the suggestion
C29_RemoveBeforeAdd ==
    /\ [][DecideStep =>
              /\ Len(commands') >= Len(commands)
              /\ SubSeq(commands', 1, Len(commands)) = commands
              /\ Cardinality({i \in 1..Len(Queued) : Queued[i].op = "remove"}) <= 1
              /\ Cardinality({i \in 1..Len(Queued) : Queued[i].op = "insert"}) <= 1
              /\ \A i \in 1..Len(Queued) :
                     Queued[i].op = "remove" =>
                         /\ active_key # None
                         /\ Queued[i] = RemoveComponents(Unwrap(active_key))
                         /\ i = 1
              /\ \A i \in 1..Len(Queued) :
                     Queued[i].op = "insert" =>
                         /\ top_suggestion # None
                         /\ Queued[i] = AddComponents(Unwrap(top_suggestion)[2])
                         /\ i = Len(Queued)]_vars
    /\ [][(/\ ApplyStep
           /\ taken # None
           /\ old_active # None
           /\ Unwrap(old_active).variant = Unwrap(taken).variant
           /\ Unwrap(old_active) # Key(Unwrap(taken)))
              => components'[SlotOfVariant(Unwrap(taken).variant)]
                     = Some(AddComponents(Unwrap(taken)).component)]_vars

\* C29 witness: Chase of one target was replaced by Chase of the other; the
\* remove and the add of the same slot are queued in this order
C29_Witness ==
    /\ Len(commands) = 2
    /\ commands[1] = RemoveComponents(KeyChase("A"))
    /\ commands[2] = AddComponents(Chase("B", 1))
    /\ old_active = Some(KeyChase("A"))
    /\ active_key = Some(KeyChase("B"))

\* C30: when update_advisor takes a suggestion of the active key and
\* update_into_components returns Ok, the step queues nothing and leaves the
\* active key as it was; the components are those update_into_components left
C30_PatchStops ==
    [][(/\ DecideStep
        /\ top_suggestion # None
        /\ active_key = Some(Key(Unwrap(top_suggestion)[2]))
        /\ UpdateIntoComponents(Unwrap(top_suggestion)[2], components).ok)
           => /\ commands' = commands
              /\ active_key' = active_key
              /\ components'
                     = UpdateIntoComponents(Unwrap(top_suggestion)[2],
                                            components).components]_vars

\* C30 witness: Chase was taken while Chase of the same target was active and
\* attached with another vec_to_target; nothing is queued, the key is the
\* same and the component now carries the new input
C30_Witness ==
    /\ ran.Think = 1
    /\ ran.Sync = 0
    /\ taken = Some(Chase("A", 1))
    /\ old_active = Some(KeyChase("A"))
    /\ active_key = old_active
    /\ commands = <<>>
    /\ components.strategy1 = Some(EnemyBehaviorChase("A", 1))

----------------------------------------------------------------------------
(* The slots of the omni-query *)

\* the field of the omni-query generated for the variant declared at an index
SlotName(i) ==
    CASE i = 0 -> "strategy0"
      [] i = 1 -> "strategy1"
      [] i = 2 -> "strategy2"

\* the slot the generated omni-query gives to a variant of the compiled enum
GeneratedSlot(variant) ==
    LET omni_query == Unwrap(derive_output).value.omni_query
    IN  SlotName(omni_query[CHOOSE i \in 1..Len(omni_query) :
                                omni_query[i].strategy = variant].slot)

\* the names of the fields of the strategy struct generated for a variant
GeneratedFieldCount(variant) ==
    LET strategies == Unwrap(derive_output).value.strategies
    IN  Len(strategies[CHOOSE i \in 1..Len(strategies) :
                           strategies[i].name = variant].fields)

\* the component has the fields the strategy struct of the variant was
\* generated with: a unit struct when there is none
HasGeneratedFields(component, variant) ==
    IF GeneratedFieldCount(variant) = 0
    THEN component = EnemyBehaviorIdle
    ELSE Cardinality(DOMAIN component) = GeneratedFieldCount(variant)

\* the omni-query with nothing but what one slot holds
OnlySlot(comps, slot) ==
    [other \in Slots |-> IF other = slot THEN comps[other] ELSE None]

\* C31: whatever the omni-query holds, update_into_components for a suggestion
\* of the variant declared i-th returns Ok exactly when slot strategy{i} is
\* populated, returns the same and leaves the same in that slot when every
\* other slot is emptied, and leaves every other slot as it was; what slot
\* strategy{i} holds has the fields of the strategy struct of that variant
C31_SlotIndexing ==
    derive_output # None /\ Unwrap(derive_output).ok /\
    \A s \in Suggestions :
        LET slot == GeneratedSlot(s.variant)
            update_result == UpdateIntoComponents(s, components)
            alone == UpdateIntoComponents(s, OnlySlot(components, slot))
        IN  /\ update_result.ok <=> components[slot] # None
            /\ update_result.ok = alone.ok
            /\ update_result.err = alone.err
            /\ update_result.components[slot] = alone.components[slot]
            /\ \A other \in Slots \ {slot} :
                   update_result.components[other] = components[other]
            /\ components[slot] # None =>
                   HasGeneratedFields(Unwrap(components[slot]), s.variant)

\* C31 witness: update_advisor patched the Chase record of the active key while
\* a Circle record was attached as well; the Circle record is as it was
C31_Witness ==
    /\ ran.Think = 1
    /\ ran.Sync = 0
    /\ taken = Some(Chase("A", 1))
    /\ old_active = Some(KeyChase("A"))
    /\ commands = <<>>
    /\ components.strategy0 = None
    /\ components.strategy1 = Some(EnemyBehaviorChase("A", 1))
    /\ components.strategy2 = Some(EnemyBehaviorCircle("B", 0, TRUE))

\* C32: for every key, remove_components queues one removal, of the strategy
\* struct of the key's variant whatever the key's fields, which applied empties
\* that slot and leaves the others as they are; every removal in the queue is
\* the one of the variant of the key that was active
C32_RemoveByVariantOnly ==
    derive_output # None /\ Unwrap(derive_output).ok /\
    /\ \A key \in Keys :
           LET cmd == RemoveComponents(key)
           IN  /\ cmd = [op |-> "remove", slot |-> GeneratedSlot(key.variant)]
               /\ ApplyCommand(components, cmd)
                      = [components EXCEPT ![GeneratedSlot(key.variant)] = None]
    /\ \A i \in 1..Len(commands) :
           commands[i].op = "remove" =>
               /\ old_active # None
               /\ commands[i].slot = GeneratedSlot(Unwrap(old_active).variant)

\* C32 witness: Chase of target B was active and is replaced by Circle; the
\* removal queued is that of the Chase strategy, the slot of Chase whatever the
\* target
C32_Witness ==
    /\ Len(commands) = 2
    /\ old_active = Some(KeyChase("B"))
    /\ commands[1] = [op |-> "remove", slot |-> "strategy1"]
    /\ commands[2].op = "insert"
    /\ commands[2].slot = "strategy2"
    /\ components.strategy1 # None

----------------------------------------------------------------------------
(* The calls of a cycle made in another order *)

\* a suggestion of a key
SuggestionOfKey(key) == CHOOSE s \in Suggestions : Key(s) = key

RECURSIVE ReplayPending(_, _)
\* the pending suggestion after the first n calls of the cycle are made in an
\* order, on the advisor as update_advisor left it
ReplayPending(order, n) ==
    IF n = 0 THEN None
    ELSE PendingAfter(consistency_bonus, active_key, ReplayPending(order, n - 1),
                      offered[order[n]].score,
                      SuggestionOfKey(offered[order[n]].key))

\* the effective scores of the calls of the cycle differ from one another
DistinctEffective ==
    \A i, j \in 1..Len(offered) :
        i # j => Effective(offered[i]) # Effective(offered[j])

\* C33: when the effective scores of the calls of a cycle differ from one
\* another, the calls made in any order leave the score and the key that are
\* pending
C33_OrderIndependent ==
    (offered # <<>> /\ DistinctEffective) =>
        \A order \in Permutations(1..Len(offered)) :
            LET pending == ReplayPending(order, Len(offered))
            IN  /\ Unwrap(pending)[1] = Unwrap(top_suggestion)[1]
                /\ Key(Unwrap(pending)[2]) = Key(Unwrap(top_suggestion)[2])

\* C34: while no key is active, or the bonus is 0, the pending suggestion,
\* which update_advisor takes, has the greatest of the scores offered in the
\* cycle
C34_MaxRawWithoutBonus ==
    (winner_idx # 0 /\ (active_key = None \/ consistency_bonus = 0)) =>
        /\ top_suggestion # None
        /\ Unwrap(top_suggestion)[1] = offered[winner_idx].score
        /\ Key(Unwrap(top_suggestion)[2]) = offered[winner_idx].key
        /\ \A i \in 1..Len(offered) :
               offered[i].score <= Unwrap(top_suggestion)[1]

\* C34 witness: no key is active, the advisor has a bonus, and the second call
\* of the cycle, of a lower score than the first, was rejected
C34_Witness ==
    /\ active_key = None
    /\ consistency_bonus > 0
    /\ Len(offered) = 2
    /\ offered[2].score < offered[1].score
    /\ offered[2].key # offered[1].key
    /\ winner_idx = 1
    /\ top_suggestion # None
    /\ Unwrap(top_suggestion)[1] = offered[1].score

\* C35: a call of suggest leaves the active key, the bonus, the components and
\* the command queue as they were; the active key changes in no step but that
\* of update_advisor, so every call of a Suggest phase is given the bonus
\* against the key update_advisor left
C35_SuggestFrame ==
    /\ [][SuggestStep =>
              /\ active_key' = active_key
              /\ consistency_bonus' = consistency_bonus
              /\ components' = components
              /\ commands' = commands]_vars
    /\ [][active_key' # active_key => DecideStep]_vars

\* C35 witness: two calls were made while Chase of target A was active and
\* attached; Idle is pending, and the key, the record and the empty queue are
\* as update_advisor and its commands left them
C35_Witness ==
    /\ Len(offered) = 2
    /\ ran.Suggest = 2
    /\ ran.Think = 0
    /\ active_key = Some(KeyChase("A"))
    /\ components.strategy1 # None
    /\ components.strategy0 = None
    /\ commands = <<>>
    /\ top_suggestion # None
    /\ Unwrap(top_suggestion)[2] = Idle

----------------------------------------------------------------------------
(* The program when nothing but the engine and its own systems touch the    *)
(* strategy components                                                      *)

\* the schedule without code that removes components behind the engine's back
NextEngineOnly ==
    \/ SuggestSystem
    \/ SuggestSystemSilent
    \/ UpdateAdvisor
    \/ ApplyDeferred
    \/ ActSystem
    \/ ActSystemWritesState
    \/ EndRun

SpecEngineOnly == Init /\ [][NextEngineOnly]_vars

\* C36: when only the engine attaches and removes records, then once the
\* commands of update_advisor are applied either no key is active and no
\* record is attached, or one record is attached and the key read back from it,
\* variant and key fields, is the active key
C36_ActiveKeyIsRecordKey ==
    ran.Sync = 1 =>
        IF active_key = None
        THEN Attached(components) = {}
        ELSE /\ Cardinality(Attached(components)) = 1
             /\ ReadBackKeys(components) = {Unwrap(active_key)}

\* C36 witness: Circle of target A was replaced by Circle of target B; in the
\* Act phase the record attached reads back as the new key
C36_Witness ==
    /\ ran.Sync = 1
    /\ ran.Act = 0
    /\ old_active = Some(KeyCircle("A"))
    /\ active_key = Some(KeyCircle("B"))
    /\ Attached(components) = {"strategy2"}
    /\ Unwrap(components.strategy2).target_entity = "B"

----------------------------------------------------------------------------
(* update_advisor run a second time in the same run of the schedule *)

\* update_advisor once more, after its first run and before its commands are
\* applied: the same loop body on the advisor as the first run left it
UpdateAdvisorAgain ==
    /\ ran.Think = 1
    /\ ran.Sync = 0
    /\ TakeTop
    /\ IF top_suggestion = None
       THEN NoSuggestion
       ELSE Reconcile(Unwrap(top_suggestion)[2])
    /\ taken' = IF top_suggestion = None THEN None
                ELSE Some(Unwrap(top_suggestion)[2])
    /\ old_active' = active_key
    /\ offered' = <<>>
    /\ winner_idx' = 0
    /\ UNCHANGED <<consistency_bonus, ran>>
    /\ UNCHANGED expansion

NextDecideTwice ==
    \/ SuggestSystem
    \/ SuggestSystemSilent
    \/ UpdateAdvisor
    \/ UpdateAdvisorAgain
    \/ ApplyDeferred
    \/ ActSystem
    \/ EndRun

SpecDecideTwice == Init /\ [][NextDecideTwice]_vars

\* C37: once update_advisor has run nothing is pending until suggest is called
\* again, and a second run of update_advisor, the only step that leaves the
\* count of the systems run as it is, changes neither the active key nor the
\* components nor the command queue nor what is pending
C37_DecideIdempotent ==
    /\ [](ran.Think = 1 => top_suggestion = None)
    /\ [][ran' = ran =>
              /\ active_key' = active_key
              /\ components' = components
              /\ commands' = commands
              /\ top_suggestion' = top_suggestion]_vars

\* C37 witness: the first run replaced the active behaviour, the second run
\* took nothing: the two commands of the first are queued and nothing more,
\* and the key is the one the first run stored
C37_Witness ==
    /\ ran.Think = 1
    /\ ran.Sync = 0
    /\ taken = None
    /\ old_active = active_key
    /\ active_key # None
    /\ Len(commands) = 2
    /\ commands[1].op = "remove"
    /\ commands[2] = AddComponents(Circle("A", 0, FALSE))
    /\ active_key = Some(KeyCircle("A"))

----------------------------------------------------------------------------
(* The macro returns, it does not panic *)

\* the roles of the fields the strategy structs were generated with
GeneratedRoles ==
    LET strategies == Unwrap(derive_output).value.strategies
    IN  UNION {{strategies[i].fields[j].role : j \in 1..Len(strategies[i].fields)} :
                   i \in 1..Len(strategies)}

\* the enum or its studied variant named with a raw identifier
RawDeriveInputs ==
    {[input EXCEPT !.ident = "r#Behavior"] : input \in DeriveInputs}
    \cup {[input EXCEPT !.variants[1].name = "r#" \o @] :
              input \in {d \in DeriveInputs : d.variants # <<>>}}

\* the compiler is about to expand the derive on an item whose names may be
\* raw identifiers
InitDeriveRaw ==
    /\ derive_input \in DeriveInputs \cup RawDeriveInputs
    /\ derive_output = None
    /\ New(0)
    /\ components = NoComponents
    /\ commands = <<>>
    /\ ran = NothingRan
    /\ offered = <<>>
    /\ winner_idx = 0
    /\ taken = None
    /\ old_active = None

SpecDeriveRaw == InitDeriveRaw /\ [][NextDerive]_vars

\* C38: whatever the input, impl_suggestion returns Ok with the generated code
\* or Err with an error and does not panic; an enum with a tuple variant whose
\* attributes and fields are in order gets the error of the key enum; and the
\* code is generated from fields whose role is resolved
C38_NeverPanics ==
    derive_output # None =>
        LET output == Unwrap(derive_output)
        IN  /\ "panicked" \notin DOMAIN output
            /\ IF output.ok
               THEN /\ DOMAIN output = {"ok", "value"}
                    /\ None \notin GeneratedRoles
                    /\ \A i \in 1..Len(derive_input.variants) :
                           derive_input.variants[i].kind # "Unnamed"
               ELSE DOMAIN output = {"ok", "error"}
            /\ (/\ derive_input.data = "Enum"
                /\ SuggestionEnumDataTryFrom(derive_input).ok
                /\ CollectVariants(SuggestionEnumDataTryFrom(derive_input).value,
                                   derive_input.variants).ok
                /\ \E i \in 1..Len(derive_input.variants) :
                       derive_input.variants[i].kind = "Unnamed")
                   => output = Err(TupleUnsupported)

====
